---- MODULE Spec2Model ----
(***************************************************************************)
(* Telegram-Kraken-Bot: the exchange client (kraken_api.Kraken.query), the *)
(* conversation workflows (trade, orders, bot/settings) and the order      *)
(* monitor (order_state_check) of telegram_kraken_bot.py.                  *)
(***************************************************************************)
EXTENDS Integers, Sequences, FiniteSets, TLC

\* config["retries"] ranges over 0..MaxRetries
MaxRetries == 2

(***************************************************************************)
(* Part 1.  kraken_api.Kraken.query                                        *)
(***************************************************************************)
VARIABLES
    q_cfg,      \* Kraken._retries, set by __init__ from config["retries"]
    q_pc,       \* "idle": no call; "call": an invocation of query is due; "done": returned
    q_retries,  \* the parameter `retries` of the due invocation: None or <<n>>
    q_log,      \* the outcomes of the exchange requests issued by this call, in order
    q_ret       \* the value returned to the caller

qvars == <<q_cfg, q_pc, q_retries, q_log, q_ret>>

VARIABLES
    config,       \* the dict read from config.json
    config_file,  \* the content of config.json
    conv,         \* per sender and ConversationHandler: the recorded step, or IDLE
    chat_data,    \* per chat: the scratch dict handed to handlers (pass_chat_data)
    limits,       \* the minimum order sizes read by init_cmd
    assets,       \* the global assets: the asset table read by init_cmd
    jobs,         \* job_queue: the order_txid of every repeating order_state_check job
    monitored,    \* monitor_orders() has run since the process started
    orders,       \* the global list of open orders cached by orders_cmd
    running,      \* FALSE once shutdown() stopped the updater
    update,       \* the update being handled: <<sender, text>>, or << >>
    trace         \* what the running handler or job did: requests, job changes, messages

bvars == <<config, config_file, limits, assets, conv, chat_data, jobs, monitored, orders, running,
          update, trace>>

\* Python's None for the parameter `retries`; an integer n is <<n>>
None == << >>
Some(n) == <<n>>

\* The value of q_ret while no value has been returned
NoReturn == [pending |-> TRUE]

\* Payloads query_private / query_public can return
Payloads == { [error |-> << >>, result |-> "P1"],
              [error |-> << >>, result |-> "P2"] }

\* Exceptions query_private / query_public can raise: type name and str(ex),
\* the text as a sequence of tokens
Exceptions ==
    { [ex_name |-> "ConnectionError", ex_str |-> <<"Connection aborted">>],
      [ex_name |-> "Timeout",         ex_str |-> <<"Read timed out">>],
      [ex_name |-> "Error",           ex_str |-> <<"Incorrect padding">>],
      [ex_name |-> "HTTPError",       ex_str |-> <<"500", "Service:Unavailable", "for url">>] }

\* An outcome of one underlying request
Outcomes == { [ok |-> TRUE, payload |-> p] : p \in Payloads }
            \cup { [ok |-> FALSE, ex |-> e] : e \in Exceptions }

\* pat in text, on token sequences: pat is a contiguous part of text
Contains(text, pat) ==
    \E i \in 0..(Len(text) - Len(pat)) :
        \A k \in 1..Len(pat) : text[i + k] = pat[k]

\* "Incorrect padding" in str(ex)
IsIncorrectPadding(ex) == Contains(ex.ex_str, <<"Incorrect padding">>)

\* A variant that looks for the text of the message returned, "Service: Unavailable"
IsServiceUnavailable_Spaced(ex) == Contains(ex.ex_str, <<"Service: Unavailable">>)

\* "Service:Unavailable" in str(ex)
IsServiceUnavailable(ex) == Contains(ex.ex_str, <<"Service:Unavailable">>)

\* The exceptions handled immediately without retrying
IsFatal(ex) == IsIncorrectPadding(ex) \/ IsServiceUnavailable(ex)

\* The error records of the two immediate cases
MsgIncorrectPadding ==
    [error |-> << <<"Incorrect padding", ": please verify that your Kraken API keys are valid">> >>]

MsgServiceUnavailable == [error |-> << <<"Service: Unavailable">> >>]

\* {"error": [ex_name + ":" + str(ex)]}
LastError(ex) == [error |-> << <<ex.ex_name, ":">> \o ex.ex_str >>]

\* query is called by a handler: retries=None
QueryEnter ==
    /\ q_pc \in {"idle", "done"}
    /\ q_pc' = "call"
    /\ q_retries' = None
    /\ q_log' = << >>
    /\ q_ret' = NoReturn
    /\ UNCHANGED q_cfg

\* The return of one invocation: the value, and the log it leaves
Return(v, log) ==
    /\ q_pc' = "done"
    /\ q_ret' = v
    /\ q_log' = log
    /\ UNCHANGED <<q_cfg, q_retries>>

\* return self.query(method, data, private, retries)
Recurse(r, log) ==
    /\ q_pc' = "call"
    /\ q_retries' = Some(r)
    /\ q_log' = log
    /\ UNCHANGED <<q_cfg, q_ret>>

\* A variant that reports the first failure of the call instead of the last
RetryOrFail_FirstError(ex, log) ==
    IF q_cfg # 0
    THEN IF q_retries = None
         THEN Recurse(q_cfg, log)
         ELSE IF q_retries[1] > 0
              THEN Recurse(q_retries[1] - 1, log)
              ELSE Return(LastError(log[1].ex), log)
    ELSE Return(LastError(log[1].ex), log)

\* The except branch below the immediate cases
RetryOrFail(ex, log) ==
    IF q_cfg # 0
    THEN IF q_retries = None
         THEN Recurse(q_cfg, log)
         ELSE IF q_retries[1] > 0
              THEN Recurse(q_retries[1] - 1, log)
              ELSE Return(LastError(ex), log)
    ELSE Return(LastError(ex), log)

\* One invocation of query: the request and what follows it
query(o) ==
    /\ q_pc = "call"
    /\ LET log == Append(q_log, o) IN
       IF o.ok
       THEN Return(o.payload, log)
       ELSE IF IsIncorrectPadding(o.ex)
            THEN Return(MsgIncorrectPadding, log)
            ELSE IF IsServiceUnavailable(o.ex)
                 THEN Return(MsgServiceUnavailable, log)
                 ELSE RetryOrFail(o.ex, log)

QueryVarsInit ==
    /\ q_cfg \in 0..MaxRetries
    /\ q_pc = "idle"
    /\ q_retries = None
    /\ q_log = << >>
    /\ q_ret = NoReturn

vars == <<qvars, bvars>>

(***************************************************************************)
(* Part 2.  telegram_kraken_bot.py: data                                   *)
(***************************************************************************)

\* The most jobs the job queue holds in the model
MaxJobs == 2

\* Who sends updates: the configured user and somebody else, each in a private chat
Senders == {"owner", "stranger"}

\* str(chat_id) of the sender's chat
ChatId(u) == IF u = "owner" THEN "1001" ELSE "2002"

\* Values of config.json and of the settings workflow: bool, int or str
Bool(b) == [t |-> "bool", v |-> b]
IntVal(n) == [t |-> "int", v |-> n]
Str(x) == [t |-> "str", v |-> x]

\* Python's truth value of a config value
Truthy(x) == CASE x.t = "bool" -> x.v
               [] x.t = "int"  -> x.v # 0
               [] x.t = "str"  -> x.v # ""

\* A dict as a function on its keys
EmptyDict == << >>
Has(d, k) == k \in DOMAIN d
Put(d, k, v) == [x \in (DOMAIN d) \cup {k} |-> IF x = k THEN v ELSE d[x]]

\* The steps of WorkflowEnum, and no recorded step
IDLE == "IDLE"
TradeSteps == {"TRADE_BUY_SELL", "TRADE_CURRENCY", "TRADE_SELL_ALL_CONFIRM", "TRADE_PRICE",
               "TRADE_VOL_TYPE", "TRADE_VOLUME", "TRADE_VOLUME_ASSET", "TRADE_CONFIRM"}
OrdersSteps == {"ORDERS_CLOSE", "ORDERS_CLOSE_ORDER"}
SettingsSteps == {"SETTINGS_CHANGE", "SETTINGS_SAVE", "SETTINGS_CONFIRM"}
BotSteps == {"BOT_SUB_CMD"} \cup SettingsSteps

\* What a handler returns: a step, ConversationHandler.END, or None
END == "END"
RetNone == "None"

\* The ConversationHandlers in the order of dispatcher.add_handler
HandlerOrder == <<"orders", "trade", "bot", "settings">>
HandlerNames == {"orders", "trade", "bot", "settings"}

\* The tables init_cmd fills: assets, pairs (from used_pairs), limits.
\* The asset table the exchange gives at start-up, and the one it gives once
\* it has listed one more asset
StartAssets == [XXBT |-> [altname |-> "XBT"],
                XETH |-> [altname |-> "ETH"],
                XLTC |-> [altname |-> "LTC"],
                ZEUR |-> [altname |-> "EUR"]]
ListedAssets == [XXBT |-> [altname |-> "XBT"],
                 XETH |-> [altname |-> "ETH"],
                 XLTC |-> [altname |-> "LTC"],
                 ZEUR |-> [altname |-> "EUR"],
                 XXRP |-> [altname |-> "XRP"]]
AssetTables == {StartAssets, ListedAssets}

\* A pair code is the sequence of its two asset codes
pairs == [XBT |-> <<"XXBT", "ZEUR">>, ETH |-> <<"XETH", "ZEUR">>]

\* config["used_pairs"]
used_pairs == [XBT |-> "EUR", ETH |-> "EUR"]

\* Amounts are counted in units of 10^-8, the digits of "{0:.8f}"
Scale == 100000000

\* float(text) of the numbers that occur, in units of 10^-8
NumTexts == {"0", "1", "2", "3", "0,5", "0.5", "0.9999999900",
             "0.0000000000", "0.0010000000", "1.5000000000", "2.00000"}
ParseFloat(x) ==
    CASE x = "0"             -> 0
      [] x = "0.0000000000"  -> 0
      [] x = "1"             -> Scale
      [] x = "2"             -> 2 * Scale
      [] x = "2.00000"       -> 2 * Scale
      [] x = "3"             -> 3 * Scale
      [] x = "0.9999999900"  -> Scale - 1
      [] x = "0,5"           -> Scale \div 2
      [] x = "0.5"           -> Scale \div 2
      [] x = "1.5000000000"  -> Scale + Scale \div 2
      [] x = "0.0010000000"  -> Scale \div 1000

\* text.replace(",", ".")
CommaToDot(x) == IF x = "0,5" THEN "0.5" ELSE x

\* The minimum order sizes min_order_size can have read: for the coins of
\* used_pairs, or with none for ETH and one for a coin outside used_pairs
LimitTables == { [XBT |-> "0.5", ETH |-> "0.5"], [XBT |-> "0.5", LTC |-> "0.5"] }

\* Transaction ids of orders
TxIds == {"T1", "T2"}

\* Responses of kraken.query as the handlers read them
ApiError == [error |-> <<"EGeneral:Internal error">>]
Ok(r) == [error |-> << >>, result |-> r]
IsError(res) == res.error # << >>

\* descr.order of an open order, split at the blanks
Descr(type, volume, pair, price) == <<type, volume, pair, "@", "limit", price>>

OpenOrder(txid, type, volume, pair, price) ==
    [txid |-> txid, descr |-> Descr(type, volume, pair, price)]

\* Results of OpenOrders: "open" as the sequence of its items
OpenSnapshots ==
    { << >>,
      << OpenOrder("T1", "sell", "0.5", <<"XBT", "EUR">>, "2") >>,
      << OpenOrder("T1", "sell", "0.5", <<"XBT", "EUR">>, "2"),
         OpenOrder("T2", "buy", "1", <<"ETH", "EUR">>, "1") >>,
      << OpenOrder("T2", "buy", "1", <<"ETH", "XBT">>, "0.5") >> }

\* Results of Balance: the items of the dict in order
BalanceSnapshots ==
    { << <<"ZEUR", "2">>, <<"XXBT", "1.5000000000">>, <<"XETH", "0.0000000000">> >>,
      << <<"XXBT", "1.5000000000">>, <<"XETH", "1.5000000000">>, <<"ZEUR", "0">> >>,
      << <<"XXBT", "0.0010000000">>, <<"XETH", "1.5000000000">> >>,
      << <<"ZEUR", "0.9999999900">>, <<"XXBT", "1.5000000000">> >>,
      << <<"XLTC", "1.5000000000">>, <<"XXBT", "1.5000000000">>, <<"ZEUR", "2">> >> }

\* status of an order in a QueryOrders result
OrderStatuses == {"pending", "open", "closed", "canceled", "expired"}

\* Events of the trace. A message is its fixed text and the values put into it.
Query(method, data, res) == [op |-> "query", method |-> method, data |-> data, res |-> res]
JobRun(i) == [op |-> "job_run", job |-> i]
Reply(what) == [op |-> "reply", what |-> <<what>>]
ReplyWith(what, arg) == [op |-> "reply", what |-> <<what, arg>>]
SendMessage(to, what) == [op |-> "send_message", to |-> to, what |-> what]
NoHandler == [op |-> "no_handler"]
JobAdd(txid) == [op |-> "run_repeating", txid |-> txid]
JobRemoval(txid) == [op |-> "schedule_removal", txid |-> txid]

\* The jobs left when the job at place i is removed
RemoveAt(js, i) == [k \in 1..(Len(js) - 1) |-> IF k < i THEN js[k] ELSE js[k + 1]]

(***************************************************************************)
(* Part 2.  telegram_kraken_bot.py: process, dispatcher, order monitor     *)
(***************************************************************************)

\* config.json as the process can find it at its first start
ConfigFiles ==
    { [user_id |-> Str("1001"), check_trade |-> Bool(c), send_error |-> Bool(TRUE)]
        : c \in BOOLEAN }

\* The state of a process that has just started with config file f and read
\* the limit table l: module level code up to start_polling
ProcessStart(f, l) ==
    /\ config = f
    /\ config_file = f
    /\ limits = l
    /\ assets = StartAssets
    /\ conv = [u \in Senders |-> [h \in HandlerNames |-> IDLE]]
    /\ chat_data = [u \in Senders |-> EmptyDict]
    /\ jobs = << >>
    /\ monitored = FALSE
    /\ orders = << >>
    /\ running = TRUE
    /\ update = << >>
    /\ trace = << >>

BotVarsInit == \E f \in ConfigFiles, l \in LimitTables : ProcessStart(f, l)

\* os.execl: the process image is replaced by a new run of the script
Execl ==
    /\ config' = config_file
    /\ limits' \in LimitTables
    /\ assets' = StartAssets
    /\ conv' = [u \in Senders |-> [h \in HandlerNames |-> IDLE]]
    /\ chat_data' = [u \in Senders |-> EmptyDict]
    /\ jobs' = << >>
    /\ monitored' = FALSE
    /\ orders' = << >>
    /\ running' = TRUE
    /\ update' = << >>
    /\ trace' = << >>
    /\ UNCHANGED <<qvars, config_file>>

\* The bot takes an update or runs a job: it is running, and the callback or
\* job before has returned
Ready == running /\ trace = << >>

\* A variant of update_state that records the END a callback returns as a step
UpdateState_KeepsEnd(h, u, ret) ==
    conv' = [conv EXCEPT ![u][h] = IF ret = RetNone THEN @ ELSE ret]

\* update_state of ConversationHandler h for sender u after a callback returned ret
UpdateState(h, u, ret) ==
    conv' = [conv EXCEPT ![u][h] = IF ret = RetNone THEN @
                                   ELSE IF ret = END THEN IDLE ELSE ret]

\* A callback of handler h for sender u ends: its return value, the chat_data,
\* the job queue and the trace it leaves
Finish(h, u, ret, cd, js, tr) ==
    /\ UpdateState(h, u, ret)
    /\ chat_data' = [chat_data EXCEPT ![u] = cd]
    /\ jobs' = js
    /\ trace' = tr
    /\ UNCHANGED <<qvars, config, config_file, limits, assets, monitored, orders, running>>

\* clear_chat_data
clear_chat_data(cd) == EmptyDict

\* == of two values of config: of the same type and equal
Same(a, b) == a.t = b.t /\ a.v = b.v

\* restrict_access: the sender is the configured user
Allowed(u) == Same(config.user_id, Str(ChatId(u)))

\* job_queue.run_repeating(order_state_check, ..., context=dict(order_txid=txid))
run_repeating(js, txid) == Append(js, txid)

\* Variants of the two tests below: an expired order counts as canceled, an
\* open order counts as closed
IsCanceled_OrExpired(order_info) == order_info.status \in {"canceled", "expired"}
IsClosed_OrOpen(order_info) == order_info.status \in {"closed", "open"}

\* A variant of the test for a canceled order that takes only an expired order
IsCanceled_OnlyExpired(order_info) == order_info.status = "expired"

\* A variant of the test for a closed order that takes an open order for it
IsClosed_OnlyOpen(order_info) == order_info.status = "open"

\* order_info["status"] == "canceled", and == "closed"
IsCanceled(order_info) == order_info.status = "canceled"
IsClosed(order_info) == order_info.status = "closed"

\* Check order state and send message if order closed: the job at place i runs
\* and QueryOrders answers res
order_state_check(i, res) ==
    /\ i \in 1..Len(jobs)
    /\ LET txid == jobs[i]
           head == <<JobRun(i), Query("QueryOrders", [txid |-> txid], res)>>
       IN  IF IsError(res)
           THEN /\ jobs' = jobs
                /\ trace' = head \o (IF Truthy(config.send_error)
                                     THEN <<SendMessage(config.user_id, <<"Order state check", res.error[1]>>)>>
                                     ELSE << >>)
           ELSE IF IsCanceled(res.result)
           THEN /\ jobs' = RemoveAt(jobs, i)
                /\ trace' = head \o <<JobRemoval(txid)>>
           ELSE IF IsClosed(res.result)
           THEN /\ jobs' = RemoveAt(jobs, i)
                /\ trace' = head \o <<SendMessage(config.user_id, <<"Trade executed", txid>>),
                                      JobRemoval(txid)>>
           ELSE /\ jobs' = jobs
                /\ trace' = head
    /\ UNCHANGED <<qvars, config, config_file, limits, assets, conv, chat_data, monitored, orders, running>>

\* Answers of QueryOrders about one order
QueryOrdersAnswers == {ApiError} \cup { Ok([status |-> st]) : st \in OrderStatuses }

\* The job queue runs a job
JobTick ==
    /\ Ready
    /\ \E i \in 1..Len(jobs), res \in QueryOrdersAnswers : order_state_check(i, res)
    /\ update' = << >>

\* The txids of the items of an OpenOrders result, in order
TxidsOf(open) == [k \in 1..Len(open) |-> open[k].txid]

\* Monitor status changes of previously created open orders: called once, after
\* start_polling
monitor_orders(res) ==
    /\ ~monitored
    /\ monitored' = TRUE
    /\ IF Truthy(config.check_trade)
       THEN LET q == <<Query("OpenOrders", EmptyDict, res)>> IN
            IF IsError(res)
            THEN /\ jobs' = jobs
                 /\ trace' = q \o (IF Truthy(config.send_error)
                                   THEN <<SendMessage(config.user_id, <<"Monitoring orders", res.error[1]>>)>>
                                   ELSE << >>)
            ELSE /\ Len(jobs) + Len(res.result.open) <= MaxJobs
                 /\ jobs' = jobs \o TxidsOf(res.result.open)
                 /\ trace' = q \o [k \in 1..Len(res.result.open) |-> JobAdd(res.result.open[k].txid)]
       ELSE /\ jobs' = jobs
            /\ trace' = << >>
    /\ UNCHANGED <<qvars, config, config_file, limits, assets, conv, chat_data, orders, running>>

\* Answers of OpenOrders
OpenOrdersAnswers == {ApiError} \cup { Ok([open |-> s]) : s \in OpenSnapshots }

StartMonitor ==
    /\ Ready
    /\ \E res \in OpenOrdersAnswers : monitor_orders(res)
    /\ update' = << >>

(***************************************************************************)
(* Part 2.  telegram_kraken_bot.py: texts and dispatch                     *)
(***************************************************************************)

\* The texts senders type
Commands == {"/trade", "/orders", "/bot", "/settings", "/cancel", "/restart", "/shutdown",
             "/initialize", "/balance", "/start"}

\* The commands of the CommandHandlers added before the conversations
TopCommands == {"/restart", "/shutdown", "/initialize", "/balance", "/start"}
Words == {"BUY", "SELL", "sell", "ALL", "YES", "NO", "no", "CANCEL", "VOLUME", "MARKET PRICE",
          "CLOSE ORDER", "CLOSE ALL", "RESTART", "SHUTDOWN", "API STATE", "SETTINGS",
          "XBT", "ETH", "EUR", "USER_ID", "user_id", "CHECK_TRADE", "SEND_ERROR",
          "true", "False", "abc"}
Numbers == {"0", "1", "3", "0,5"}
Texts == Commands \cup Words \cup Numbers \cup TxIds

\* Each text that has letters, with its upper() and its lower()
CaseTable ==
    { <<"BUY", "BUY", "buy">>, <<"SELL", "SELL", "sell">>, <<"sell", "SELL", "sell">>,
      <<"ALL", "ALL", "all">>, <<"YES", "YES", "yes">>, <<"NO", "NO", "no">>,
      <<"no", "NO", "no">>, <<"CANCEL", "CANCEL", "cancel">>,
      <<"VOLUME", "VOLUME", "volume">>, <<"MARKET PRICE", "MARKET PRICE", "market price">>,
      <<"CLOSE ORDER", "CLOSE ORDER", "close order">>,
      <<"CLOSE ALL", "CLOSE ALL", "close all">>, <<"RESTART", "RESTART", "restart">>,
      <<"SHUTDOWN", "SHUTDOWN", "shutdown">>, <<"API STATE", "API STATE", "api state">>,
      <<"SETTINGS", "SETTINGS", "settings">>, <<"XBT", "XBT", "xbt">>,
      <<"ETH", "ETH", "eth">>, <<"EUR", "EUR", "eur">>,
      <<"USER_ID", "USER_ID", "user_id">>, <<"user_id", "USER_ID", "user_id">>,
      <<"CHECK_TRADE", "CHECK_TRADE", "check_trade">>,
      <<"SEND_ERROR", "SEND_ERROR", "send_error">>, <<"true", "TRUE", "true">>,
      <<"False", "FALSE", "false">>, <<"abc", "ABC", "abc">>,
      <<"T1", "T1", "t1">>, <<"T2", "T2", "t2">>,
      <<"/trade", "/TRADE", "/trade">>, <<"/orders", "/ORDERS", "/orders">>,
      <<"/bot", "/BOT", "/bot">>, <<"/settings", "/SETTINGS", "/settings">>,
      <<"/cancel", "/CANCEL", "/cancel">>, <<"/restart", "/RESTART", "/restart">>,
      <<"/shutdown", "/SHUTDOWN", "/shutdown">> }

\* text.upper() and text.lower() of the texts of the table
UpperMap == [x \in {c[1] : c \in CaseTable} |-> (CHOOSE c \in CaseTable : c[1] = x)[2]]
LowerMap == [x \in {c[1] : c \in CaseTable} |-> (CHOOSE c \in CaseTable : c[1] = x)[3]]

\* text.upper(): digits and punctuation stay
Upper(x) == IF x \in DOMAIN UpperMap THEN UpperMap[x] ELSE x

\* text.lower()
Lower(x) == IF x \in DOMAIN LowerMap THEN LowerMap[x] ELSE x

\* The texts the RegexHandler patterns match; comp() compiles with re.IGNORECASE
MatchWord(x, ws) == Upper(x) \in ws

\* ^(?=.*?\d)\d*[.,]?\d*$
MatchNumber(x) == x \in Numbers

\* A variant of the pattern of transaction ids that takes any text
MatchTxid_AnyText(x) == x = x

\* ^[A-Z0-9]{6}-[A-Z0-9]{5}-[A-Z0-9]{6}$ : the transaction ids have that shape
MatchTxid(x) == x \in TxIds

\* regex_coin_or(): the coins of config["used_pairs"]
Coins == DOMAIN used_pairs

\* regex_asset_or(): the altnames of the assets, as they are when the
\* handlers are built, after the init_cmd of the start-up
AltNames == { StartAssets[a].altname : a \in DOMAIN StartAssets }

\* regex_settings_or(): the keys of config, upper case
SettingNames == {"USER_ID", "CHECK_TRADE", "SEND_ERROR"}

\* Filters.text: a text message that is no command
FiltersText(x) == x \notin Commands

\* The callback a list of (pattern matches, callback) selects: the first that matches
First(cands) ==
    IF \E k \in 1..Len(cands) : cands[k][1]
    THEN cands[CHOOSE k \in 1..Len(cands) :
                   cands[k][1] /\ \A m \in 1..(k - 1) : ~cands[m][1]][2]
    ELSE "none"

\* states of orders_handler
OrdersStates(step, x) ==
    CASE step = "ORDERS_CLOSE" ->
            First(<< <<MatchWord(x, {"CLOSE ORDER"}), "orders_choose_order">>,
                     <<MatchWord(x, {"CLOSE ALL"}), "orders_close_all">>,
                     <<MatchWord(x, {"CANCEL"}), "cancel">> >>)
      [] step = "ORDERS_CLOSE_ORDER" ->
            First(<< <<MatchWord(x, {"CANCEL"}), "cancel">>,
                     <<MatchTxid(x), "orders_close_order">> >>)
      [] OTHER -> "none"

\* states of trade_handler
TradeStates(step, x) ==
    CASE step = "TRADE_BUY_SELL" ->
            First(<< <<MatchWord(x, {"BUY", "SELL"}), "trade_buy_sell">>,
                     <<MatchWord(x, {"CANCEL"}), "cancel_chat_data">> >>)
      [] step = "TRADE_CURRENCY" ->
            First(<< <<MatchWord(x, Coins), "trade_currency">>,
                     <<MatchWord(x, {"CANCEL"}), "cancel_chat_data">>,
                     <<MatchWord(x, {"ALL"}), "trade_sell_all">> >>)
      [] step = "TRADE_SELL_ALL_CONFIRM" ->
            First(<< <<MatchWord(x, {"YES", "NO"}), "trade_sell_all_confirm">> >>)
      [] step = "TRADE_PRICE" ->
            First(<< <<MatchNumber(x) \/ MatchWord(x, {"MARKET PRICE"}), "trade_price">>,
                     <<MatchWord(x, {"CANCEL"}), "cancel_chat_data">> >>)
      [] step = "TRADE_VOL_TYPE" ->
            First(<< <<MatchWord(x, AltNames), "trade_vol_asset">>,
                     <<MatchWord(x, {"VOLUME"}), "trade_vol_volume">>,
                     <<MatchWord(x, {"ALL"}), "trade_vol_all">>,
                     <<MatchWord(x, {"CANCEL"}), "cancel_chat_data">> >>)
      [] step = "TRADE_VOLUME" ->
            First(<< <<MatchNumber(x), "trade_volume">>,
                     <<MatchWord(x, {"CANCEL"}), "cancel_chat_data">> >>)
      [] step = "TRADE_VOLUME_ASSET" ->
            First(<< <<MatchNumber(x), "trade_volume_asset">>,
                     <<MatchWord(x, {"CANCEL"}), "cancel_chat_data">> >>)
      [] step = "TRADE_CONFIRM" ->
            First(<< <<MatchWord(x, {"YES", "NO"}), "trade_confirm">> >>)
      [] OTHER -> "none"

\* settings_change_state, settings_save_state, settings_confirm_state
SettingsStates(step, x) ==
    CASE step = "SETTINGS_CHANGE" ->
            First(<< <<MatchWord(x, SettingNames), "settings_change">>,
                     <<MatchWord(x, {"CANCEL"}), "cancel_chat_data">> >>)
      [] step = "SETTINGS_SAVE" ->
            First(<< <<FiltersText(x), "settings_save">> >>)
      [] step = "SETTINGS_CONFIRM" ->
            First(<< <<MatchWord(x, {"YES", "NO"}), "settings_confirm">> >>)
      [] OTHER -> "none"

\* states of bot_handler
BotStates(step, x) ==
    CASE step = "BOT_SUB_CMD" ->
            First(<< <<MatchWord(x, {"RESTART", "SHUTDOWN"}), "bot_sub_cmd">>,
                     <<MatchWord(x, {"API STATE"}), "state_cmd">>,
                     <<MatchWord(x, {"SETTINGS"}), "settings_cmd">>,
                     <<MatchWord(x, {"CANCEL"}), "cancel">> >>)
      [] OTHER -> SettingsStates(step, x)

\* The command of the entry point of each ConversationHandler, and its callback
EntryCommand(h) ==
    CASE h = "orders" -> "/orders" [] h = "trade" -> "/trade"
      [] h = "bot" -> "/bot" [] h = "settings" -> "/settings"

EntryCallback(h) ==
    CASE h = "orders" -> "orders_cmd" [] h = "trade" -> "trade_cmd"
      [] h = "bot" -> "bot_cmd" [] h = "settings" -> "settings_cmd"

\* fallbacks=[CommandHandler('cancel', cancel)]; trade_handler passes chat_data
Fallback_AnyText(h, x) ==
    IF x = "/cancel" \/ x \notin Commands
    THEN (IF h = "trade" THEN "cancel_chat_data" ELSE "cancel")
    ELSE "none"

Fallback(h, x) ==
    IF x = "/cancel"
    THEN (IF h = "trade" THEN "cancel_chat_data" ELSE "cancel")
    ELSE "none"

\* The states table of handler h: the callback whose pattern matches text x at
\* the step, or "none"
StateCallback(h, step, x) ==
    CASE h = "orders" -> OrdersStates(step, x)
      [] h = "trade" -> TradeStates(step, x)
      [] h = "bot" -> BotStates(step, x)
      [] h = "settings" -> SettingsStates(step, x)

\* ConversationHandler.check_update: the callback handler h selects for text x
\* at the recorded step, or "none" when it does not handle the update
CallbackOf(h, step, x) ==
    IF step = IDLE
    THEN (IF x = EntryCommand(h) THEN EntryCallback(h) ELSE "none")
    ELSE LET c == StateCallback(h, step, x)
         IN  IF c # "none" THEN c ELSE Fallback(h, x)

\* Dispatcher.process_update: no handler accepts the update, which is dropped;
\* the trace records that no callback ran
Unhandled(u, x) ==
    /\ x \notin TopCommands
    /\ \A h \in HandlerNames : CallbackOf(h, conv[u][h], x) = "none"
    /\ update' = <<u, x>>
    /\ trace' = <<NoHandler>>
    /\ UNCHANGED <<qvars, config, config_file, limits, assets, conv, chat_data, jobs, monitored,
                   orders, running>>

\* The place of handler h in the dispatcher's list
Place(h) == CHOOSE k \in 1..Len(HandlerOrder) : HandlerOrder[k] = h

\* Dispatcher.process_update: the first handler of the group that accepts the
\* update handles it. The CommandHandlers added before the conversations take
\* their commands.
Selected(h, u, x, name) ==
    /\ x \notin TopCommands
    /\ CallbackOf(h, conv[u][h], x) = name
    /\ \A k \in 1..(Place(h) - 1) :
           CallbackOf(HandlerOrder[k], conv[u][HandlerOrder[k]], x) = "none"

\* The trace restrict_access leaves when it turns the sender away
\* (config["show_access_denied"] is set)
AccessDenied(u) ==
    <<SendMessage(Str(ChatId(u)), <<"Access denied">>),
      SendMessage(config.user_id, <<"Access denied for user", ChatId(u)>>)>>

\* An exception leaves the callback: the dispatcher logs it, no state is updated
RaiseWith(h, u, cd, js, tr) == Finish(h, u, RetNone, cd, js, Append(tr, [op |-> "raise"]))
Raise(h, u, cd, tr) == RaiseWith(h, u, cd, jobs, tr)

(***************************************************************************)
(* Part 2.  telegram_kraken_bot.py: amounts                                *)
(***************************************************************************)

\* The n digits after the point of r / p, for 0 <= r < p, as a number
RECURSIVE FracDigits(_, _, _)
FracDigits(r, p, n) ==
    IF n = 0 THEN 0
    ELSE LET d == (r * 10) \div p
             f == FracDigits((r * 10) % p, p, n - 1)
         IN  d * (10 ^ (n - 1)) + f

\* The remainder left after n digits of r / p
RECURSIVE FracRest(_, _, _)
FracRest(r, p, n) == IF n = 0 THEN r ELSE FracRest((r * 10) % p, p, n - 1)

\* "{0:.8f}".format(a / p) for amounts a >= 0 and p > 0 in units of 10^-8:
\* the quotient rounded to 8 digits
DivFormat(a, p) ==
    LET whole == (a \div p) * Scale
        frac == FracDigits(a % p, p, 8)
        rest == FracRest(a % p, p, 8)
    IN  whole + frac + (IF 2 * rest >= p THEN 1 ELSE 0)

\* a / p with the sign of a
SignedDivFormat(a, p) == IF a < 0 THEN 0 - DivFormat(0 - a, p) ELSE DivFormat(a, p)

\* float(v) * float(p) in units of 10^-8, for v, p >= 0
Times(v, p) ==
    LET vi == v \div Scale
        vf == v % Scale
        pi == p \div Scale
        pf == p % Scale
        fh == vf \div 10000
        fl == vf % 10000
        gh == pf \div 10000
        gl == pf % 10000
    IN  vi * pi * Scale + vi * pf + vf * pi
        + fh * gh + ((fh * gl + fl * gh + ((fl * gl) \div 10000)) \div 10000)

(***************************************************************************)
(* Part 2.  telegram_kraken_bot.py: the trade workflow                     *)
(***************************************************************************)

\* Will show a cancel message, end the conversation and show the default
\* keyboard; passed is whether the handler hands chat_data to it
cancel(h, u, passed) ==
    Finish(h, u, END,
           IF passed THEN clear_chat_data(chat_data[u]) ELSE chat_data[u],
           jobs, <<Reply("Canceled...")>>)

\* Create orders to buy or sell currencies with price limit - choose 'buy' or 'sell'
trade_cmd(u, x) ==
    /\ Selected("trade", u, x, "trade_cmd")
    /\ IF Allowed(u)
       THEN Finish("trade", u, "TRADE_BUY_SELL", chat_data[u], jobs, <<Reply("Buy or sell?")>>)
       ELSE Finish("trade", u, RetNone, chat_data[u], jobs, AccessDenied(u))

\* Save if BUY or SELL order and choose the currency to trade
trade_buy_sell(u, x) ==
    /\ Selected("trade", u, x, "trade_buy_sell")
    /\ Finish("trade", u, "TRADE_CURRENCY", Put(chat_data[u], "buysell", Lower(x)), jobs,
              <<Reply("Choose currency")>>)

\* Show confirmation to sell all assets
trade_sell_all(u, x) ==
    /\ Selected("trade", u, x, "trade_sell_all")
    /\ Finish("trade", u, "TRADE_SELL_ALL_CONFIRM", chat_data[u], jobs,
              <<Reply("Sell all assets to current market price?")>>)

\* asset.startswith("Z")
StartsWithZ(a) == a \in {"ZEUR"}

\* The loop that closes all currently open orders: the order at place k and
\* the ones after it, outs[k] being the answer to its CancelOrder
RECURSIVE CancelOpenOrders(_, _, _)
CancelOpenOrders(open, outs, k) ==
    IF k > Len(open) THEN [tr |-> << >>, returned |-> FALSE]
    ELSE LET q == Query("CancelOrder", [txid |-> open[k].txid], outs[k]) IN
         IF IsError(outs[k])
         THEN [tr |-> <<q, ReplyWith("Not possible to close order", open[k].txid)>>,
               returned |-> TRUE]
         ELSE LET rest == CancelOpenOrders(open, outs, k + 1)
              IN  [tr |-> <<q>> \o rest.tr, returned |-> rest.returned]

\* The request of a sell-all order
SellAllRequest(alt, amount) ==
    [type |-> "sell", trading_agreement |-> "agree", pair |-> pairs[alt],
     ordertype |-> "market", volume |-> amount]

\* The loop over the balance that sells every asset: the item at place k and
\* the ones after it, outs being the answers to the AddOrder requests still to
\* come, js the jobs
RECURSIVE SellAssets(_, _, _, _)
SellAssets(bal, outs, k, js) ==
    IF k > Len(bal) THEN [tr |-> << >>, jobs |-> js, raised |-> FALSE]
    ELSE LET asset == bal[k][1]
             amount == bal[k][2]
             next == SellAssets(bal, outs, k + 1, js)
         IN
         IF StartsWithZ(asset) THEN next
         ELSE IF amount = "0.0000000000" THEN next
         ELSE IF asset \notin DOMAIN assets
         THEN [tr |-> << >>, jobs |-> js, raised |-> TRUE]
         ELSE LET alt == assets[asset].altname IN
         IF alt \in DOMAIN limits
            /\ ParseFloat(amount) < ParseFloat(limits[alt])
         THEN [tr |-> <<ReplyWith("Volume to low", alt)>> \o next.tr,
               jobs |-> next.jobs, raised |-> next.raised]
         ELSE IF alt \notin DOMAIN limits THEN next
         ELSE IF alt \notin DOMAIN pairs
         THEN [tr |-> << >>, jobs |-> js, raised |-> TRUE]
         ELSE LET res == Head(outs)
                  q == Query("AddOrder", SellAllRequest(alt, amount), res)
              IN
         IF IsError(res)
         THEN LET after == SellAssets(bal, Tail(outs), k + 1, js)
              IN  [tr |-> <<q, Reply(res.error[1])>> \o after.tr,
                   jobs |-> after.jobs, raised |-> after.raised]
         ELSE IF res.result.txid = << >>
         THEN [tr |-> <<q>>, jobs |-> js, raised |-> TRUE]
         ELSE LET txid == res.result.txid[1]
                  js2 == IF Truthy(config.check_trade) THEN run_repeating(js, txid) ELSE js
                  after == SellAssets(bal, Tail(outs), k + 1, js2)
              IN  [tr |-> <<q>> \o (IF Truthy(config.check_trade) THEN <<JobAdd(txid)>> ELSE << >>)
                              \o after.tr,
                   jobs |-> after.jobs, raised |-> after.raised]

\* The items of a balance the loop asks an AddOrder for, when every request
\* is answered
RECURSIVE Sellable(_, _)
Sellable(bal, k) ==
    IF k > Len(bal) THEN 0
    ELSE (IF /\ ~StartsWithZ(bal[k][1])
             /\ bal[k][2] # "0.0000000000"
             /\ bal[k][1] \in DOMAIN assets
             /\ assets[bal[k][1]].altname \in DOMAIN limits
             /\ ParseFloat(bal[k][2]) >= ParseFloat(limits[assets[bal[k][1]].altname])
          THEN 1 ELSE 0) + Sellable(bal, k + 1)

\* Answers of Balance, AddOrder and CancelOrder
BalanceAnswers == {ApiError} \cup { Ok(b) : b \in BalanceSnapshots }
AddOrderAnswers == {ApiError, Ok([txid |-> << >>])} \cup { Ok([txid |-> <<t>>]) : t \in TxIds }
CancelOrderAnswers == {ApiError, Ok([count |-> 1])}

\* What trade_sell_all_confirm does with the balance once the open orders are closed
SellAllOfBalance(u, cd, tr, bal) ==
    LET t2 == Append(tr, Query("Balance", EmptyDict, bal)) IN
    IF IsError(bal)
    THEN Finish("trade", u, RetNone, cd, jobs, Append(t2, Reply(bal.error[1])))
    ELSE \E aouts \in [1..Sellable(bal.result, 1) -> AddOrderAnswers] :
           LET sold == SellAssets(bal.result, aouts, 1, jobs) IN
           /\ Len(sold.jobs) <= MaxJobs
           /\ IF sold.raised
              THEN RaiseWith("trade", u, cd, sold.jobs, t2 \o sold.tr)
              ELSE Finish("trade", u, END, cd, sold.jobs,
                          Append(t2 \o sold.tr, Reply("Created orders to sell all assets")))

\* Sells all assets for there respective current market value
trade_sell_all_confirm(u, x) ==
    /\ Selected("trade", u, x, "trade_sell_all_confirm")
    /\ IF Upper(x) = "NO" THEN cancel("trade", u, FALSE)
       ELSE
       \E oo \in OpenOrdersAnswers :
       LET cd == chat_data[u]
           t0 == <<Reply("Preparing to sell everything..."), Query("OpenOrders", EmptyDict, oo)>>
       IN
       IF IsError(oo)
       THEN Finish("trade", u, RetNone, cd, jobs, Append(t0, Reply(oo.error[1])))
       ELSE
       \E couts \in [1..Len(oo.result.open) -> CancelOrderAnswers] :
       LET cl == CancelOpenOrders(oo.result.open, couts, 1) IN
       IF cl.returned THEN Finish("trade", u, RetNone, cd, jobs, t0 \o cl.tr)
       ELSE \E bal \in BalanceAnswers : SellAllOfBalance(u, cd, t0 \o cl.tr, bal)

\* From pair string (XXBTZEUR) get from-asset (XXBT) and to-asset (ZEUR)
assets_from_pair(pair) ==
    IF pair[2] \in DOMAIN assets
    THEN (IF pair[1] \in DOMAIN assets THEN <<pair[1], pair[2]>> ELSE <<"None", pair[2]>>)
    ELSE <<"None", "None">>

\* Save currency to trade and enter price per unit to trade
trade_currency(u, x) ==
    /\ Selected("trade", u, x, "trade_currency")
    /\ LET cd1 == Put(chat_data[u], "currency", Upper(x)) IN
       IF Upper(x) \notin DOMAIN pairs THEN Raise("trade", u, cd1, << >>)
       ELSE
       LET both == assets_from_pair(pairs[Upper(x)])
           cd2 == Put(Put(cd1, "one", both[1]), "two", both[2])
       IN  IF both[2] \notin DOMAIN assets THEN Raise("trade", u, cd2, << >>)
           ELSE Finish("trade", u, "TRADE_PRICE", cd2, jobs, <<Reply("Enter price per coin")>>)

\* Save price per unit and choose how to enter the
\* trade volume (fiat currency, volume or all available funds)
trade_price(u, x) ==
    /\ Selected("trade", u, x, "trade_price")
    /\ LET cd0 == chat_data[u]
           cd1 == IF Has(cd0, "market_price") THEN cd0
                  ELSE IF Upper(x) = "MARKET PRICE" THEN Put(cd0, "market_price", TRUE)
                  ELSE Put(Put(cd0, "market_price", FALSE), "price", CommaToDot(Upper(x)))
       IN
       IF cd1.market_price /\ ~Has(cd1, "buysell") THEN Raise("trade", u, cd1, << >>)
       ELSE IF cd1.market_price /\ cd1.buysell = "buy"
       THEN Finish("trade", u, "TRADE_VOLUME", Put(cd1, "vol_type", "VOLUME"), jobs,
                   <<Reply("Enter volume")>>)
       ELSE IF cd1.market_price /\ cd1.buysell = "sell"
       THEN Finish("trade", u, "TRADE_VOL_TYPE", cd1, jobs, <<Reply("How to enter the volume?")>>)
       ELSE IF ~Has(cd1, "two") \/ (Has(cd1, "two") /\ cd1.two \notin DOMAIN assets)
       THEN Raise("trade", u, cd1, << >>)
       ELSE Finish("trade", u, "TRADE_VOL_TYPE", cd1, jobs, <<Reply("How to enter the volume?")>>)

\* code.endswith(x) for an asset code and a text: the altname ends the code
EndsWith(code, x) == code \in DOMAIN assets /\ assets[code].altname = x

\* Save volume type decision and enter volume
trade_vol_asset(u, x) ==
    /\ Selected("trade", u, x, "trade_vol_asset")
    /\ LET cd == chat_data[u] IN
       IF ~Has(cd, "two") THEN Raise("trade", u, cd, << >>)
       ELSE IF EndsWith(cd.two, Upper(x))
       THEN Finish("trade", u, "TRADE_VOLUME_ASSET", Put(cd, "vol_type", Upper(x)), jobs,
                   <<Reply("Enter volume in")>>)
       ELSE Finish("trade", u, "TRADE_VOL_TYPE", cd, jobs,
                   <<Reply("Entered volume type not valid")>>)

\* Volume type 'VOLUME' chosen - meaning that you can enter the volume directly
trade_vol_volume(u, x) ==
    /\ Selected("trade", u, x, "trade_vol_volume")
    /\ Finish("trade", u, "TRADE_VOLUME", Put(chat_data[u], "vol_type", Upper(x)), jobs,
              <<Reply("Enter volume")>>)

\* Answers of Ticker: result[pair]["c"]
TickerAnswers == {ApiError, Ok([c |-> <<"2.00000">>])}

\* Calculate total value and show order description and confirmation for order
\* creation; tk is the answer of Ticker, asked for a market price only.
\* Gives the chat_data and the trace it leaves, and whether it raised.
trade_show_conf(cd, tk) ==
    IF ~({"two", "market_price"} \subseteq DOMAIN cd) \/ cd.two \notin DOMAIN assets
    THEN [cd |-> cd, tr |-> << >>, raised |-> TRUE]
    ELSE IF cd.market_price
    THEN IF ~Has(cd, "currency") \/ cd.currency \notin DOMAIN pairs
         THEN [cd |-> cd, tr |-> <<Reply("Retrieving estimated price...")>>, raised |-> TRUE]
         ELSE LET tr == <<Reply("Retrieving estimated price..."),
                          Query("Ticker", [pair |-> pairs[cd.currency]], tk)>>
              IN  IF IsError(tk)
                  THEN [cd |-> cd, tr |-> Append(tr, Reply(tk.error[1])), raised |-> FALSE]
                  ELSE LET cd1 == Put(cd, "price", tk.result.c[1]) IN
                       IF {"buysell", "volume"} \subseteq DOMAIN cd1
                       THEN [cd |-> cd1, tr |-> Append(tr, Reply("Place this order?")),
                             raised |-> FALSE]
                       ELSE [cd |-> cd1, tr |-> tr, raised |-> TRUE]
    ELSE IF {"buysell", "volume", "currency", "price"} \subseteq DOMAIN cd
         THEN [cd |-> cd, tr |-> <<Reply("Place this order?")>>, raised |-> FALSE]
         ELSE [cd |-> cd, tr |-> << >>, raised |-> TRUE]

\* The answers trade_show_conf can get: those of Ticker when it asks for the
\* market price, and no answer when it sends no request
NoAnswer == [error |-> <<"no request">>]
TickerFor(cd) ==
    IF /\ {"two", "market_price", "currency"} \subseteq DOMAIN cd
       /\ cd.two \in DOMAIN assets
       /\ cd.market_price
       /\ cd.currency \in DOMAIN pairs
    THEN TickerAnswers
    ELSE {NoAnswer}

\* balance[asset] of a Balance result, and whether it has the key
HasBalance(bal, a) == \E k \in 1..Len(bal) : bal[k][1] = a
BalanceOf(bal, a) == bal[CHOOSE k \in 1..Len(bal) : bal[k][1] = a][2]

\* The funds left when the open buy orders from place k on are subtracted
RECURSIVE AvailBuy(_, _, _)
AvailBuy(avail, open, k) ==
    IF k > Len(open) THEN avail
    ELSE LET d == open[k].descr IN
         AvailBuy(IF d[1] = "buy"
                  THEN avail - Times(ParseFloat(d[2]), ParseFloat(d[6]))
                  ELSE avail,
                  open, k + 1)

\* The currency of an order: the pair of the description without the altname
\* that ends it
OrderCurrency(d) == d[3][1]

\* A variant of the loop below that subtracts the open sell orders of every currency
RECURSIVE AvailSell_AnyCurrency(_, _, _, _)
AvailSell_AnyCurrency(avail, open, k, currency) ==
    IF k > Len(open) THEN avail
    ELSE LET d == open[k].descr IN
         AvailSell_AnyCurrency(IF d[1] = "sell" THEN avail - ParseFloat(d[2]) ELSE avail,
                               open, k + 1, currency)

\* The volume left when the open sell orders for currency from place k on are
\* subtracted
RECURSIVE AvailSell(_, _, _, _)
AvailSell(avail, open, k, currency) ==
    IF k > Len(open) THEN avail
    ELSE LET d == open[k].descr IN
         AvailSell(IF currency = OrderCurrency(d) /\ d[1] = "sell"
                   THEN avail - ParseFloat(d[2])
                   ELSE avail,
                   open, k + 1, currency)

\* The end of trade_vol_all, trade_volume and trade_volume_asset: the
\* confirmation is shown and the step is TRADE_CONFIRM
ShowConfAndConfirm(u, cd, tr) ==
    \E tk \in TickerFor(cd) :
        LET sc == trade_show_conf(cd, tk) IN
        IF sc.raised THEN Raise("trade", u, sc.cd, tr \o sc.tr)
        ELSE Finish("trade", u, "TRADE_CONFIRM", sc.cd, jobs, tr \o sc.tr)

\* trade_vol_all once Balance and OpenOrders have answered. The volume is the
\* text "{0:.8f}".format(...), compared with "0.00000000": negative funds that
\* round to zero give "-0.00000000", which is another text
VolAllOf(u, cd, t1, bal, oo) ==
    IF ~Has(cd, "buysell") THEN Raise("trade", u, cd, t1)
    ELSE IF cd.buysell = "buy"
    THEN IF ~Has(cd, "two") \/ (Has(cd, "two") /\ ~HasBalance(bal.result, cd.two))
         THEN Raise("trade", u, cd, t1)
         ELSE LET avail == AvailBuy(ParseFloat(BalanceOf(bal.result, cd.two)), oo.result.open, 1) IN
              IF ~Has(cd, "price") \/ (Has(cd, "price") /\ ParseFloat(cd.price) = 0)
              THEN Raise("trade", u, cd, t1)
              ELSE LET cd1 == Put(cd, "volume", SignedDivFormat(avail, ParseFloat(cd.price))) IN
                   IF cd1.volume = 0 /\ avail >= 0
                   THEN Finish("trade", u, END, cd1, jobs, Append(t1, Reply("Available volume is 0")))
                   ELSE ShowConfAndConfirm(u, cd1, t1)
    ELSE IF ~({"one", "currency"} \subseteq DOMAIN cd)
            \/ (Has(cd, "one") /\ ~HasBalance(bal.result, cd.one))
         THEN Raise("trade", u, cd, t1)
         ELSE LET avail == AvailSell(ParseFloat(BalanceOf(bal.result, cd.one)),
                                     oo.result.open, 1, cd.currency)
                  cd1 == Put(cd, "volume", avail)
              IN  IF cd1.volume = 0
                  THEN Finish("trade", u, END, cd1, jobs, Append(t1, Reply("Available volume is 0")))
                  ELSE ShowConfAndConfirm(u, cd1, t1)

\* Volume type 'ALL' chosen - meaning that all available funds will be used
trade_vol_all(u, x) ==
    /\ Selected("trade", u, x, "trade_vol_all")
    /\ \E bal \in BalanceAnswers :
       LET cd == chat_data[u]
           t0 == <<Reply("Calculating volume..."), Query("Balance", EmptyDict, bal)>>
       IN
       IF IsError(bal) THEN Finish("trade", u, RetNone, cd, jobs, Append(t0, Reply(bal.error[1])))
       ELSE \E oo \in OpenOrdersAnswers :
            LET t1 == Append(t0, Query("OpenOrders", EmptyDict, oo)) IN
            IF IsError(oo)
            THEN Finish("trade", u, RetNone, cd, jobs, Append(t1, Reply(oo.error[1])))
            ELSE VolAllOf(u, cd, t1, bal, oo)

\* A variant of the test below that also turns away a volume equal to the limit
BelowLimit_OrEqual(cd) == cd.volume <= ParseFloat(limits[cd.currency])

\* float(chat_data["volume"]) < float(limits[chat_data["currency"]])
BelowLimit(cd) == cd.volume < ParseFloat(limits[cd.currency])

\* Make sure that the order size is at least the minimum order limit, then
\* show the confirmation: the common end of trade_volume and trade_volume_asset
CheckLimitAndConfirm(u, cd) ==
    IF ~Has(cd, "currency") THEN Raise("trade", u, cd, << >>)
    ELSE IF cd.currency \in DOMAIN limits /\ BelowLimit(cd)
    THEN Finish("trade", u, "TRADE_VOLUME", cd, jobs,
                <<Reply("Volume to low"), Reply("Enter new volume")>>)
    ELSE ShowConfAndConfirm(u, cd, << >>)

\* Calculate the volume depending on entered volume type currency
trade_volume_asset(u, x) ==
    /\ Selected("trade", u, x, "trade_volume_asset")
    /\ LET cd == chat_data[u]
           amount == ParseFloat(CommaToDot(x))
       IN  IF ~Has(cd, "price") \/ (Has(cd, "price") /\ ParseFloat(cd.price) = 0)
           THEN Raise("trade", u, cd, << >>)
           ELSE CheckLimitAndConfirm(u, Put(cd, "volume", DivFormat(amount, ParseFloat(cd.price))))

\* Calculate the volume depending on entered volume type 'VOLUME'
trade_volume(u, x) ==
    /\ Selected("trade", u, x, "trade_volume")
    /\ CheckLimitAndConfirm(u, Put(chat_data[u], "volume", ParseFloat(CommaToDot(x))))

\* A variant of the request below whose market order lacks the trading agreement
OrderRequest_NoAgreement(cd) ==
    LET kind == IF cd.market_price
                THEN [ordertype |-> "market"]
                ELSE [ordertype |-> "limit", price |-> cd.price]
    IN  Put(Put(Put(kind, "type", Lower(cd.buysell)), "volume", cd.volume),
            "pair", pairs[cd.currency])

\* The request trade_confirm builds from the chat_data
OrderRequest(cd) ==
    LET kind == IF cd.market_price
                THEN [ordertype |-> "market", trading_agreement |-> "agree"]
                ELSE [ordertype |-> "limit", price |-> cd.price]
    IN  Put(Put(Put(kind, "type", Lower(cd.buysell)), "volume", cd.volume),
            "pair", pairs[cd.currency])

\* The keys trade_confirm reads to build the request
CanBuildRequest(cd) ==
    /\ {"market_price", "buysell", "volume", "currency"} \subseteq DOMAIN cd
    /\ cd.market_price \/ Has(cd, "price")
    /\ cd.currency \in DOMAIN pairs

\* Answers of QueryOrders about the order just placed: its info, or none
PlacedOrderAnswers == {ApiError, Ok([status |-> "open"]), Ok(EmptyDict)}

\* What trade_confirm does once AddOrder has answered with a transaction id
AfterOrderPlaced(u, cd, tr, txid) ==
    \E qo \in PlacedOrderAnswers :
    LET t1 == Append(tr, Query("QueryOrders", [txid |-> txid], qo)) IN
    IF IsError(qo)
    THEN Finish("trade", u, RetNone, cd, jobs, Append(t1, Reply(qo.error[1])))
    ELSE IF qo.result # EmptyDict
    THEN IF Truthy(config.check_trade)
         THEN /\ Len(jobs) < MaxJobs
              /\ Finish("trade", u, END, clear_chat_data(cd), run_repeating(jobs, txid),
                        t1 \o <<ReplyWith("Order placed", txid), JobAdd(txid)>>)
         ELSE Finish("trade", u, END, clear_chat_data(cd), jobs,
                     Append(t1, ReplyWith("Order placed", txid)))
    ELSE Finish("trade", u, END, clear_chat_data(cd), jobs,
                Append(t1, ReplyWith("No order with TXID", txid)))

\* The user has to confirm placing the order
trade_confirm(u, x) ==
    /\ Selected("trade", u, x, "trade_confirm")
    /\ IF Upper(x) = "NO" THEN cancel("trade", u, TRUE)
       ELSE
       LET cd == chat_data[u]
           t0 == <<Reply("Placing order...")>>
       IN
       IF ~CanBuildRequest(cd) THEN Raise("trade", u, cd, t0)
       ELSE
       \E add \in AddOrderAnswers :
       LET t1 == Append(t0, Query("AddOrder", OrderRequest(cd), add)) IN
       IF IsError(add)
       THEN Finish("trade", u, RetNone, cd, jobs, Append(t1, Reply(add.error[1])))
       ELSE IF add.result.txid # << >>
       THEN AfterOrderPlaced(u, cd, t1, add.result.txid[1])
       ELSE Finish("trade", u, END, clear_chat_data(cd), jobs,
                   Append(t1, Reply("Undefined state: no error and no TXID")))

(***************************************************************************)
(* Part 2.  telegram_kraken_bot.py: the orders workflow                    *)
(***************************************************************************)

\* A callback of orders_handler for sender u ends: its return value, the
\* global orders list and the trace it leaves
FinishOrders(u, ret, os, tr) ==
    /\ UpdateState("orders", u, ret)
    /\ orders' = os
    /\ trace' = tr
    /\ UNCHANGED <<qvars, config, config_file, limits, assets, chat_data, jobs, monitored, running>>

\* The messages that show the open orders, one for each
ShowOrders(open) == [k \in 1..Len(open) |-> ReplyWith("Order", open[k].txid)]

\* Show and manage orders
orders_cmd(u, x) ==
    /\ Selected("orders", u, x, "orders_cmd")
    /\ IF ~Allowed(u) THEN FinishOrders(u, RetNone, orders, AccessDenied(u))
       ELSE
       \E oo \in OpenOrdersAnswers :
       LET t0 == <<Reply("Retrieving orders..."), Query("OpenOrders", EmptyDict, oo)>> IN
       IF IsError(oo) THEN FinishOrders(u, RetNone, orders, Append(t0, Reply(oo.error[1])))
       ELSE IF oo.result.open # << >>
       THEN FinishOrders(u, "ORDERS_CLOSE", oo.result.open,
                         t0 \o ShowOrders(oo.result.open)
                            \o <<Reply("What do you want to do?")>>)
       ELSE FinishOrders(u, END, << >>, Append(t0, Reply("No open orders")))

\* Choose what to do with the open orders
orders_choose_order(u, x) ==
    /\ Selected("orders", u, x, "orders_choose_order")
    /\ IF orders # << >>
       THEN FinishOrders(u, "ORDERS_CLOSE_ORDER", orders, <<Reply("Which order to close?")>>)
       ELSE FinishOrders(u, END, orders, <<Reply("No open orders")>>)

\* A variant of the loop below that stops at the first order not closed
RECURSIVE CloseOrders_StopAtFailure(_, _, _)
CloseOrders_StopAtFailure(os, outs, x) ==
    IF x > Len(os) THEN [tr |-> << >>, closed |-> << >>]
    ELSE LET order_id == os[x].txid
             q == Query("CancelOrder", [txid |-> order_id], outs[x])
         IN  IF IsError(outs[x])
             THEN [tr |-> <<q, [op |-> "reply",
                                what |-> <<"Order not closed", order_id, outs[x].error[1]>>]>>,
                   closed |-> << >>]
             ELSE LET rest == CloseOrders_StopAtFailure(os, outs, x + 1) IN
                  [tr |-> <<q>> \o rest.tr, closed |-> <<order_id>> \o rest.closed]

\* The loop of orders_close_all from place x on, outs[x] being the answer to the
\* CancelOrder of the order at place x: the trace, and closed_orders
RECURSIVE CloseOrders(_, _, _)
CloseOrders(os, outs, x) ==
    IF x > Len(os) THEN [tr |-> << >>, closed |-> << >>]
    ELSE LET order_id == os[x].txid
             rest == CloseOrders(os, outs, x + 1)
             q == Query("CancelOrder", [txid |-> order_id], outs[x])
         IN  IF IsError(outs[x])
             THEN [tr |-> <<q, [op |-> "reply",
                                what |-> <<"Order not closed", order_id, outs[x].error[1]>>]>>
                          \o (IF x # Len(os) THEN <<Reply("Closing next order...")>> ELSE << >>)
                          \o rest.tr,
                   closed |-> rest.closed]
             ELSE [tr |-> <<q>> \o rest.tr, closed |-> <<order_id>> \o rest.closed]

\* Close all open orders
orders_close_all(u, x) ==
    /\ Selected("orders", u, x, "orders_close_all")
    /\ LET t0 == <<Reply("Closing orders...")>> IN
       IF orders # << >>
       THEN \E outs \in [1..Len(orders) -> CancelOrderAnswers] :
            LET done == CloseOrders(orders, outs, 1) IN
            IF done.closed # << >>
            THEN FinishOrders(u, END, orders,
                              t0 \o done.tr
                                 \o <<[op |-> "reply", what |-> <<"Orders closed">> \o done.closed]>>)
            ELSE FinishOrders(u, RetNone, orders, t0 \o done.tr \o <<Reply("No orders closed")>>)
       ELSE FinishOrders(u, END, orders, Append(t0, Reply("No open orders")))

\* Close the specified order
orders_close_order(u, x) ==
    /\ Selected("orders", u, x, "orders_close_order")
    /\ \E res \in CancelOrderAnswers :
       LET t0 == <<Reply("Closing order..."), Query("CancelOrder", [txid |-> x], res)>> IN
       IF IsError(res) THEN FinishOrders(u, RetNone, orders, Append(t0, Reply(res.error[1])))
       ELSE FinishOrders(u, END, orders, Append(t0, ReplyWith("Order closed", x)))

\* RegexHandler(CANCEL, cancel) and the fallback of orders_handler
CancelOrders(u, x) ==
    /\ Selected("orders", u, x, "cancel")
    /\ cancel("orders", u, FALSE)

(***************************************************************************)
(* Part 2.  telegram_kraken_bot.py: commands outside the conversations     *)
(***************************************************************************)

\* A callback that belongs to no conversation ends: the trace it leaves
Done(tr) ==
    /\ trace' = tr
    /\ UNCHANGED <<qvars, config, config_file, limits, assets, conv, chat_data, jobs, monitored,
                   orders, running>>

\* Answers of Assets and of AssetPairs
AssetsAnswers == {ApiError} \cup { Ok(t) : t \in AssetTables }
AssetPairsAnswers == {ApiError, Ok(pairs)}

\* value.isdigit() for the texts that occur as user_id
IsDigit(v) == v \in {"1001", "2002", "0", "1"}

\* init_cmd ends: the asset table, the limit table and the trace it leaves
InitDone(a, l, tr) ==
    /\ assets' = a
    /\ limits' = l
    /\ trace' = tr
    /\ UNCHANGED <<qvars, config, config_file, conv, chat_data, jobs, monitored, orders, running>>

\* Make sure preconditions are met and show welcome screen:
\* CommandHandler("initialize", init_cmd), not wrapped by restrict_access
init_cmd(u, x) ==
    /\ x = "/initialize"
    /\ \E ra \in AssetsAnswers :
       LET uid == config.user_id
           t0 == <<SendMessage(uid, <<"Preparing Kraken-Bot">>),
                   SendMessage(uid, <<"Reading assets...">>),
                   Query("Assets", EmptyDict, ra)>>
       IN
       IF IsError(ra)
       THEN InitDone(assets, limits,
                     Append(t0, SendMessage(uid, <<"Reading assets... FAILED", ra.error[1]>>)))
       ELSE
       \E rp \in AssetPairsAnswers :
       LET t1 == t0 \o <<SendMessage(uid, <<"Reading asset pairs...">>),
                         Query("AssetPairs", EmptyDict, rp)>>
       IN
       IF IsError(rp)
       THEN InitDone(ra.result, limits,
                     Append(t1, SendMessage(uid, <<"Reading asset pairs... FAILED", rp.error[1]>>)))
       ELSE IF uid.t # "str"
       THEN InitDone(ra.result, limits, Append(t1, [op |-> "raise"]))
       ELSE IF ~IsDigit(uid.v)
       THEN InitDone(ra.result, limits,
                     Append(t1, SendMessage(uid, <<"Checking sanity... FAILED", "USER_ID">>)))
       ELSE \E l \in LimitTables :
            InitDone(ra.result, l, t1 \o <<SendMessage(uid, <<"Reading order limits...">>),
                                SendMessage(uid, <<"Kraken-Bot is ready!">>)>>)

\* Get balance of all currencies: CommandHandler("balance", balance_cmd)
balance_cmd(u, x) ==
    /\ x = "/balance"
    /\ IF ~Allowed(u) THEN Done(AccessDenied(u))
       ELSE
       \E bal \in BalanceAnswers :
       LET t0 == <<Reply("Retrieving balance..."), Query("Balance", EmptyDict, bal)>> IN
       IF IsError(bal) THEN Done(Append(t0, Reply(bal.error[1])))
       ELSE \E oo \in OpenOrdersAnswers :
            LET t1 == Append(t0, Query("OpenOrders", EmptyDict, oo)) IN
            IF IsError(oo) THEN Done(Append(t1, Reply(oo.error[1])))
            ELSE Done(Append(t1, Reply("Balance")))

\* CommandHandler("start", start_cmd), not wrapped by restrict_access
start_cmd(u, x) ==
    /\ x = "/start"
    /\ Done(<<Reply("Welcome to Kraken-Telegram-Bot!")>>)

\* Restart this python script: CommandHandler("restart", restart_cmd)
restart_cmd(u, x) ==
    /\ x = "/restart"
    /\ IF Allowed(u) THEN Execl ELSE Done(AccessDenied(u)) /\ update' = <<u, x>>

\* updater.stop() in shutdown(): no update is handled and no job runs any more
shutdown ==
    /\ running' = FALSE
    /\ UNCHANGED <<qvars, config, config_file, limits, assets, conv, chat_data, jobs, monitored, orders>>

\* Terminate this script: CommandHandler("shutdown", shutdown_cmd)
shutdown_cmd(u, x) ==
    /\ x = "/shutdown"
    /\ IF Allowed(u)
       THEN trace' = <<Reply("Shutting down...")>> /\ shutdown
       ELSE Done(AccessDenied(u))

\* updater.idle(): the callback or the job has returned and the bot waits for
\* the next update or tick; what the last one did is past
Idle ==
    /\ running
    /\ trace # << >>
    /\ trace' = << >>
    /\ update' = << >>
    /\ UNCHANGED <<qvars, config, config_file, limits, assets, conv, chat_data, jobs, monitored,
                   orders, running>>

\* RegexHandler(CANCEL, cancel, pass_chat_data=True) and the fallback of trade_handler
CancelTrade(u, x) ==
    /\ Selected("trade", u, x, "cancel_chat_data")
    /\ cancel("trade", u, TRUE)

(***************************************************************************)
(* Part 2.  telegram_kraken_bot.py: the bot and settings workflows         *)
(***************************************************************************)

\* The most keys of config that hold a value config.json never had at the first start
MaxEdits == 1

\* The callback restrict_access wraps is not called: the sender is told, and the
\* user of config c is
AccessDeniedBy(c, u) ==
    <<SendMessage(Str(ChatId(u)), <<"Access denied">>),
      SendMessage(c.user_id, <<"Access denied for user", ChatId(u)>>)>>

\* Shows sub-commands to control the bot
bot_cmd(u, x) ==
    /\ Selected("bot", u, x, "bot_cmd")
    /\ IF Allowed(u)
       THEN Finish("bot", u, "BOT_SUB_CMD", chat_data[u], jobs, <<Reply("What do you want to do?")>>)
       ELSE Finish("bot", u, RetNone, chat_data[u], jobs, AccessDenied(u))
    /\ update' = <<u, x>>

\* Execute chosen sub-cmd of 'bot' cmd: RESTART and SHUTDOWN reach it. It calls
\* the wrapped restart_cmd or shutdown_cmd and returns None
bot_sub_cmd(u, x) ==
    /\ Selected("bot", u, x, "bot_sub_cmd")
    /\ IF ~Allowed(u)
       THEN Finish("bot", u, RetNone, chat_data[u], jobs, AccessDenied(u)) /\ update' = <<u, x>>
       ELSE IF Upper(x) = "RESTART" THEN Execl
       ELSE trace' = <<Reply("Shutting down...")>> /\ shutdown /\ update' = <<u, x>>

\* Get current state of Kraken API, from the bot workflow
state_cmd(u, x) ==
    /\ Selected("bot", u, x, "state_cmd")
    /\ IF Allowed(u)
       THEN Finish("bot", u, END, chat_data[u], jobs,
                   <<Reply("Retrieving API state..."),
                     SendMessage(config.user_id, <<"Kraken API Status">>)>>)
       ELSE Finish("bot", u, RetNone, chat_data[u], jobs, AccessDenied(u))
    /\ update' = <<u, x>>

\* Show the settings: entry of settings_handler, and SETTINGS in the bot workflow
settings_cmd(h, u, x) ==
    /\ Selected(h, u, x, "settings_cmd")
    /\ IF Allowed(u)
       THEN Finish(h, u, "SETTINGS_CHANGE", chat_data[u], jobs,
                   <<Reply("settings"), Reply("Choose key to change value")>>)
       ELSE Finish(h, u, RetNone, chat_data[u], jobs, AccessDenied(u))
    /\ update' = <<u, x>>

\* Change setting: the name is stored before USER_ID is turned away
settings_change(h, u, x) ==
    /\ Selected(h, u, x, "settings_change")
    /\ LET cd == Put(chat_data[u], "setting", Lower(x)) IN
       IF Upper(x) = "USER_ID"
       THEN Finish(h, u, RetNone, cd, jobs, <<Reply("It's not possible to change USER_ID value")>>)
       ELSE Finish(h, u, "SETTINGS_SAVE", cd, jobs, <<Reply("Enter new value")>>)
    /\ update' = <<u, x>>

\* int(new_value) of the texts: the digit strings convert
IntOf(x) == CASE x = "0" -> <<0>> [] x = "1" -> <<1>> [] OTHER -> << >>

\* A variant of the value below that knows the booleans in lower case only
NewValue_LowerCaseOnly(x) ==
    IF x = "true" THEN Bool(TRUE)
    ELSE IF x = "false" THEN Bool(FALSE)
    ELSE IF IntOf(x) # << >> THEN IntVal(IntOf(x)[1])
    ELSE Str(x)

\* The value settings_save stores for the text: a bool, an int or the text
NewValue(x) ==
    IF Lower(x) = "true" THEN Bool(TRUE)
    ELSE IF Lower(x) = "false" THEN Bool(FALSE)
    ELSE IF IntOf(x) # << >> THEN IntVal(IntOf(x)[1])
    ELSE Str(x)

\* Save new value for chosen setting
settings_save(h, u, x) ==
    /\ Selected(h, u, x, "settings_save")
    /\ Finish(h, u, "SETTINGS_CONFIRM", Put(chat_data[u], "value", NewValue(x)), jobs,
              <<Reply("Save new value and restart bot?")>>)
    /\ update' = <<u, x>>

\* The keys of config c that hold a value no config.json of a first start holds
Edited(c) == { k \in DOMAIN c : \A f \in ConfigFiles : ~Same(c[k], f[k]) }

\* Confirm saving new setting and restart bot: config and config.json are
\* written, then the wrapped restart_cmd checks the sender against the new config
settings_confirm(h, u, x) ==
    /\ Selected(h, u, x, "settings_confirm")
    /\ IF Upper(x) = "NO" THEN cancel(h, u, TRUE) /\ update' = <<u, x>>
       ELSE LET cd == chat_data[u] IN
       IF ~({"setting", "value"} \subseteq DOMAIN cd)
       THEN Raise(h, u, cd, << >>) /\ update' = <<u, x>>
       ELSE LET new == Put(config, cd.setting, cd.value) IN
            /\ Cardinality(Edited(new)) <= MaxEdits
            /\ config_file' = new
            /\ IF Same(new.user_id, Str(ChatId(u)))
               THEN /\ config' = new
                    /\ limits' \in LimitTables
                    /\ assets' = StartAssets
                    /\ conv' = [v \in Senders |-> [g \in HandlerNames |-> IDLE]]
                    /\ chat_data' = [v \in Senders |-> EmptyDict]
                    /\ jobs' = << >>
                    /\ monitored' = FALSE
                    /\ orders' = << >>
                    /\ running' = TRUE
                    /\ update' = << >>
                    /\ trace' = << >>
                    /\ UNCHANGED qvars
               ELSE /\ config' = new
                    /\ trace' = <<Reply("New value saved")>> \o AccessDeniedBy(new, u)
                    /\ update' = <<u, x>>
                    /\ UNCHANGED <<qvars, limits, assets, conv, chat_data, jobs, monitored, orders,
                                   running>>

\* RegexHandler(CANCEL, cancel) of BOT_SUB_CMD and the fallbacks of bot_handler
\* and settings_handler
CancelBot(h, u, x) ==
    /\ Selected(h, u, x, "cancel")
    /\ cancel(h, u, FALSE)
    /\ update' = <<u, x>>

\* RegexHandler(CANCEL, cancel, pass_chat_data=True) of settings_change_state
CancelSettings(h, u, x) ==
    /\ Selected(h, u, x, "cancel_chat_data")
    /\ cancel(h, u, TRUE)
    /\ update' = <<u, x>>

(***************************************************************************)
(* Specifications                                                          *)
(***************************************************************************)

\* The bot with its trade workflow and its order monitor. The handlers see
\* Kraken.query through its answers, so the client is at rest with retries off.
Init ==
    /\ q_cfg = 0
    /\ q_pc = "idle"
    /\ q_retries = None
    /\ q_log = << >>
    /\ q_ret = NoReturn
    /\ BotVarsInit

\* One update: a sender, a text, and the callback the dispatcher selects
TradeCmd ==
    Ready /\ \E u \in Senders, x \in Texts : trade_cmd(u, x) /\ update' = <<u, x>>
TradeBuySell ==
    Ready /\ \E u \in Senders, x \in Texts : trade_buy_sell(u, x) /\ update' = <<u, x>>
TradeSellAll ==
    Ready /\ \E u \in Senders, x \in Texts : trade_sell_all(u, x) /\ update' = <<u, x>>
TradeSellAllConfirm ==
    Ready /\ \E u \in Senders, x \in Texts : trade_sell_all_confirm(u, x) /\ update' = <<u, x>>
TradeCurrency ==
    Ready /\ \E u \in Senders, x \in Texts : trade_currency(u, x) /\ update' = <<u, x>>
TradePrice ==
    Ready /\ \E u \in Senders, x \in Texts : trade_price(u, x) /\ update' = <<u, x>>
TradeVolAsset ==
    Ready /\ \E u \in Senders, x \in Texts : trade_vol_asset(u, x) /\ update' = <<u, x>>
TradeVolVolume ==
    Ready /\ \E u \in Senders, x \in Texts : trade_vol_volume(u, x) /\ update' = <<u, x>>
TradeVolAll ==
    Ready /\ \E u \in Senders, x \in Texts : trade_vol_all(u, x) /\ update' = <<u, x>>
TradeVolumeAsset ==
    Ready /\ \E u \in Senders, x \in Texts : trade_volume_asset(u, x) /\ update' = <<u, x>>
TradeVolume ==
    Ready /\ \E u \in Senders, x \in Texts : trade_volume(u, x) /\ update' = <<u, x>>
TradeConfirm ==
    Ready /\ \E u \in Senders, x \in Texts : trade_confirm(u, x) /\ update' = <<u, x>>
TradeCancel ==
    Ready /\ \E u \in Senders, x \in Texts : CancelTrade(u, x) /\ update' = <<u, x>>
Restart == Ready /\ \E u \in Senders, x \in Texts : restart_cmd(u, x)
Shutdown ==
    Ready /\ \E u \in Senders, x \in Texts : shutdown_cmd(u, x) /\ update' = <<u, x>>

Next ==
    \/ StartMonitor
    \/ JobTick
    \/ TradeCmd
    \/ TradeBuySell
    \/ TradeSellAll
    \/ TradeSellAllConfirm
    \/ TradeCurrency
    \/ TradePrice
    \/ TradeVolAsset
    \/ TradeVolVolume
    \/ TradeVolAll
    \/ TradeVolumeAsset
    \/ TradeVolume
    \/ TradeConfirm
    \/ TradeCancel
    \/ Restart
    \/ Shutdown
    \/ Idle

Spec == Init /\ [][Next]_vars

\* The texts of the commands, of the orders workflow and of the bot menu
OrdersTexts == Commands \cup {"CLOSE ORDER", "CLOSE ALL", "CANCEL", "RESTART", "SHUTDOWN",
                              "API STATE"} \cup TxIds

OrdersCmd ==
    Ready /\ \E u \in Senders, x \in OrdersTexts : orders_cmd(u, x) /\ update' = <<u, x>>
OrdersChooseOrder ==
    Ready /\ \E u \in Senders, x \in OrdersTexts : orders_choose_order(u, x) /\ update' = <<u, x>>
OrdersCloseAll ==
    Ready /\ \E u \in Senders, x \in OrdersTexts : orders_close_all(u, x) /\ update' = <<u, x>>
OrdersCloseOrder ==
    Ready /\ \E u \in Senders, x \in OrdersTexts : orders_close_order(u, x) /\ update' = <<u, x>>
OrdersCancel ==
    Ready /\ \E u \in Senders, x \in OrdersTexts : CancelOrders(u, x) /\ update' = <<u, x>>
InitCmd ==
    Ready /\ \E u \in Senders, x \in OrdersTexts : init_cmd(u, x) /\ update' = <<u, x>>
BalanceCmd ==
    Ready /\ \E u \in Senders, x \in OrdersTexts : balance_cmd(u, x) /\ update' = <<u, x>>
StartCmd ==
    Ready /\ \E u \in Senders, x \in OrdersTexts : start_cmd(u, x) /\ update' = <<u, x>>
BotCmd == Ready /\ \E u \in Senders, x \in OrdersTexts : bot_cmd(u, x)
BotSubCmd == Ready /\ \E u \in Senders, x \in OrdersTexts : bot_sub_cmd(u, x)
StateCmd == Ready /\ \E u \in Senders, x \in OrdersTexts : state_cmd(u, x)
BotCancel ==
    Ready /\ \E u \in Senders, x \in OrdersTexts, h \in {"bot", "settings"} : CancelBot(h, u, x)
SettingsEntry == Ready /\ \E u \in Senders, x \in OrdersTexts : settings_cmd("settings", u, x)

\* The bot with its commands, its orders workflow and its bot menu
OrdersNext ==
    \/ OrdersCmd
    \/ OrdersChooseOrder
    \/ OrdersCloseAll
    \/ OrdersCloseOrder
    \/ OrdersCancel
    \/ InitCmd
    \/ BalanceCmd
    \/ StartCmd
    \/ TradeCmd
    \/ TradeCancel
    \/ BotCmd
    \/ BotSubCmd
    \/ StateCmd
    \/ BotCancel
    \/ SettingsEntry
    \/ Restart
    \/ Shutdown
    \/ Idle

OrdersSpec == Init /\ [][OrdersNext]_vars

\* The texts of the settings workflow, alone and under the bot menu
SettingsTexts == {"/bot", "/settings", "/trade", "/cancel", "SETTINGS", "CANCEL", "USER_ID",
                  "CHECK_TRADE", "YES", "NO", "true", "abc"}

BotMenu == Ready /\ \E u \in Senders, x \in SettingsTexts : bot_cmd(u, x)
SettingsCmd ==
    Ready /\ \E u \in Senders, x \in SettingsTexts, h \in {"bot", "settings"} :
                 settings_cmd(h, u, x)
SettingsChange ==
    Ready /\ \E u \in Senders, x \in SettingsTexts, h \in {"bot", "settings"} :
                 settings_change(h, u, x)
SettingsSave ==
    Ready /\ \E u \in Senders, x \in SettingsTexts, h \in {"bot", "settings"} :
                 settings_save(h, u, x)
SettingsConfirm ==
    Ready /\ \E u \in Senders, x \in SettingsTexts, h \in {"bot", "settings"} :
                 settings_confirm(h, u, x)
SettingsCancel ==
    Ready /\ \E u \in Senders, x \in SettingsTexts, h \in {"bot", "settings"} :
                 CancelSettings(h, u, x)
MenuCancel ==
    Ready /\ \E u \in Senders, x \in SettingsTexts, h \in {"bot", "settings"} :
                 CancelBot(h, u, x)
TradeEntry ==
    Ready /\ \E u \in Senders, x \in SettingsTexts : trade_cmd(u, x) /\ update' = <<u, x>>
TradeLeave ==
    Ready /\ \E u \in Senders, x \in SettingsTexts : CancelTrade(u, x) /\ update' = <<u, x>>

\* The bot with its settings workflow, reached by /settings and by the bot menu,
\* next to a trade workflow that is entered and left
SettingsNext ==
    \/ BotMenu
    \/ SettingsCmd
    \/ SettingsChange
    \/ SettingsSave
    \/ SettingsConfirm
    \/ SettingsCancel
    \/ MenuCancel
    \/ TradeEntry
    \/ TradeLeave
    \/ Idle

SettingsSpec == Init /\ [][SettingsNext]_vars

\* The most conversations a sender holds at a time in the walk through the steps
MaxOpen == 1

\* The texts of the walk through the steps of the four workflows
StepsTexts == {"/trade", "/orders", "/bot", "/settings", "/cancel", "SELL", "XBT", "ALL", "1",
               "VOLUME", "EUR", "YES", "NO", "CANCEL", "CLOSE ORDER", "CLOSE ALL", "T1",
               "RESTART", "API STATE", "SETTINGS", "CHECK_TRADE", "true"}

\* The values entered at SETTINGS_SAVE in the walk
StepsValues == {"true"}

\* Sender u holds fewer than MaxOpen conversations
MayOpen(u) == Cardinality({ h \in HandlerNames : conv[u][h] # IDLE }) < MaxOpen

StepsTradeCmd ==
    Ready /\ \E u \in Senders, x \in StepsTexts : MayOpen(u) /\ trade_cmd(u, x) /\ update' = <<u, x>>
StepsTradeBuySell ==
    Ready /\ \E u \in Senders, x \in StepsTexts : trade_buy_sell(u, x) /\ update' = <<u, x>>
StepsTradeSellAll ==
    Ready /\ \E u \in Senders, x \in StepsTexts : trade_sell_all(u, x) /\ update' = <<u, x>>
StepsTradeSellAllConfirm ==
    Ready /\ \E u \in Senders, x \in StepsTexts : trade_sell_all_confirm(u, x) /\ update' = <<u, x>>
StepsTradeCurrency ==
    Ready /\ \E u \in Senders, x \in StepsTexts : trade_currency(u, x) /\ update' = <<u, x>>
StepsTradePrice ==
    Ready /\ \E u \in Senders, x \in StepsTexts : trade_price(u, x) /\ update' = <<u, x>>
StepsTradeVolAsset ==
    Ready /\ \E u \in Senders, x \in StepsTexts : trade_vol_asset(u, x) /\ update' = <<u, x>>
StepsTradeVolVolume ==
    Ready /\ \E u \in Senders, x \in StepsTexts : trade_vol_volume(u, x) /\ update' = <<u, x>>
StepsTradeVolAll ==
    Ready /\ \E u \in Senders, x \in StepsTexts : trade_vol_all(u, x) /\ update' = <<u, x>>
StepsTradeVolumeAsset ==
    Ready /\ \E u \in Senders, x \in StepsTexts : trade_volume_asset(u, x) /\ update' = <<u, x>>
StepsTradeVolume ==
    Ready /\ \E u \in Senders, x \in StepsTexts : trade_volume(u, x) /\ update' = <<u, x>>
StepsTradeConfirm ==
    Ready /\ \E u \in Senders, x \in StepsTexts : trade_confirm(u, x) /\ update' = <<u, x>>
StepsTradeCancel ==
    Ready /\ \E u \in Senders, x \in StepsTexts : CancelTrade(u, x) /\ update' = <<u, x>>
StepsOrdersCmd ==
    Ready /\ \E u \in Senders, x \in StepsTexts : MayOpen(u) /\ orders_cmd(u, x) /\ update' = <<u, x>>
StepsOrdersChooseOrder ==
    Ready /\ \E u \in Senders, x \in StepsTexts : orders_choose_order(u, x) /\ update' = <<u, x>>
StepsOrdersCloseAll ==
    Ready /\ \E u \in Senders, x \in StepsTexts : orders_close_all(u, x) /\ update' = <<u, x>>
StepsOrdersCloseOrder ==
    Ready /\ \E u \in Senders, x \in StepsTexts : orders_close_order(u, x) /\ update' = <<u, x>>
StepsOrdersCancel ==
    Ready /\ \E u \in Senders, x \in StepsTexts : CancelOrders(u, x) /\ update' = <<u, x>>
StepsBotCmd ==
    Ready /\ \E u \in Senders, x \in StepsTexts : MayOpen(u) /\ bot_cmd(u, x)
StepsBotSubCmd ==
    Ready /\ \E u \in Senders, x \in StepsTexts : bot_sub_cmd(u, x)
StepsStateCmd ==
    Ready /\ \E u \in Senders, x \in StepsTexts : state_cmd(u, x)
StepsSettingsEntry ==
    Ready /\ \E u \in Senders, x \in StepsTexts : MayOpen(u) /\ settings_cmd("settings", u, x)
StepsSettingsMenu ==
    Ready /\ \E u \in Senders, x \in StepsTexts : settings_cmd("bot", u, x)
StepsSettingsChange ==
    Ready /\ \E u \in Senders, x \in StepsTexts, h \in {"bot", "settings"} : settings_change(h, u, x)
StepsSettingsSave ==
    Ready /\ \E u \in Senders, x \in StepsValues, h \in {"bot", "settings"} : settings_save(h, u, x)
StepsSettingsConfirm ==
    Ready /\ \E u \in Senders, x \in StepsTexts, h \in {"bot", "settings"} : settings_confirm(h, u, x)
StepsSettingsCancel ==
    Ready /\ \E u \in Senders, x \in StepsTexts, h \in {"bot", "settings"} : CancelSettings(h, u, x)
StepsBotCancel ==
    Ready /\ \E u \in Senders, x \in StepsTexts, h \in {"bot", "settings"} : CancelBot(h, u, x)

StepsUnhandled ==
    Ready /\ \E u \in Senders, x \in StepsTexts : Unhandled(u, x)

\* The walk through the steps: every callback of the four workflows, a sender
\* holding one conversation at a time
StepsNext ==
    \/ StepsTradeCmd
    \/ StepsTradeBuySell
    \/ StepsTradeSellAll
    \/ StepsTradeSellAllConfirm
    \/ StepsTradeCurrency
    \/ StepsTradePrice
    \/ StepsTradeVolAsset
    \/ StepsTradeVolVolume
    \/ StepsTradeVolAll
    \/ StepsTradeVolumeAsset
    \/ StepsTradeVolume
    \/ StepsTradeConfirm
    \/ StepsTradeCancel
    \/ StepsOrdersCmd
    \/ StepsOrdersChooseOrder
    \/ StepsOrdersCloseAll
    \/ StepsOrdersCloseOrder
    \/ StepsOrdersCancel
    \/ StepsBotCmd
    \/ StepsBotSubCmd
    \/ StepsStateCmd
    \/ StepsSettingsEntry
    \/ StepsSettingsMenu
    \/ StepsSettingsChange
    \/ StepsSettingsSave
    \/ StepsSettingsConfirm
    \/ StepsSettingsCancel
    \/ StepsBotCancel
    \/ StepsUnhandled
    \/ Idle

StepsSpec == Init /\ [][StepsNext]_vars

\* The job queue runs a job that tracks order t, and QueryOrders answers from rs
TickOf(t, rs) ==
    /\ Ready
    /\ \E i \in 1..Len(jobs), res \in rs : jobs[i] = t /\ order_state_check(i, res)
    /\ update' = << >>

\* The order monitor of a process that keeps running: the reconciliation at
\* start-up, the ticks of the job queue, and the sell-all workflow that
\* registers jobs for the orders it creates
MonitorNext ==
    \/ StartMonitor
    \/ JobTick
    \/ TradeCmd
    \/ TradeBuySell
    \/ TradeSellAll
    \/ TradeSellAllConfirm
    \/ TradeCancel
    \/ Idle

\* run_repeating runs each job again after every interval, whatever else the
\* process does in between
MonitorSpec ==
    /\ Init
    /\ [][MonitorNext]_vars
    /\ WF_vars(Idle)
    /\ \A t \in TxIds : SF_vars(TickOf(t, QueryOrdersAnswers))

\* The texts of the settings workflow, with values of each kind
SaveTexts == {"/settings", "/cancel", "CHECK_TRADE", "SEND_ERROR", "CANCEL", "YES", "NO",
              "true", "False", "0", "1", "abc", "0,5"}

SaveSettingsCmd ==
    Ready /\ \E u \in Senders, x \in SaveTexts : settings_cmd("settings", u, x)
SaveSettingsChange ==
    Ready /\ \E u \in Senders, x \in SaveTexts : settings_change("settings", u, x)
SaveSettingsSave ==
    Ready /\ \E u \in Senders, x \in SaveTexts : settings_save("settings", u, x)
SaveSettingsConfirm ==
    Ready /\ \E u \in Senders, x \in SaveTexts : settings_confirm("settings", u, x)
SaveSettingsCancel ==
    Ready /\ \E u \in Senders, x \in SaveTexts : CancelSettings("settings", u, x)
SaveFallback ==
    Ready /\ \E u \in Senders, x \in SaveTexts : CancelBot("settings", u, x)

\* The settings workflow alone
SaveNext ==
    \/ SaveSettingsCmd
    \/ SaveSettingsChange
    \/ SaveSettingsSave
    \/ SaveSettingsConfirm
    \/ SaveSettingsCancel
    \/ SaveFallback
    \/ Idle

SaveSpec == Init /\ [][SaveNext]_vars

\* The order monitor next to the orders workflow: the operator closes orders
\* while jobs track them
CancelNext ==
    \/ StartMonitor
    \/ JobTick
    \/ OrdersCmd
    \/ OrdersChooseOrder
    \/ OrdersCloseAll
    \/ OrdersCloseOrder
    \/ OrdersCancel
    \/ Idle

CancelSpec ==
    /\ Init
    /\ [][CancelNext]_vars
    /\ WF_vars(Idle)
    /\ \A t \in TxIds : SF_vars(TickOf(t, QueryOrdersAnswers))

\* The exchange client alone: the bot is at rest
QueryInit == QueryVarsInit /\ BotVarsInit

QueryCall == QueryEnter /\ UNCHANGED bvars

QueryStep == (\E o \in Outcomes : query(o)) /\ UNCHANGED bvars

QueryNext == QueryCall \/ QueryStep

QuerySpec == QueryInit /\ [][QueryNext]_vars

\* A due invocation runs: query is a synchronous call and each request returns or raises
QueryLive == QuerySpec /\ WF_vars(QueryStep)

(***************************************************************************)
(* Claims about Kraken.query                                               *)
(***************************************************************************)

\* The texts the exchange client treats as fatal-immediate
FatalPatterns == { <<"Incorrect padding">>, <<"Service:Unavailable">> }

HasFatalText(ex) == \E p \in FatalPatterns : Contains(ex.ex_str, p)

\* Every request of the call so far failed with a retryable exception
AllRetryableFailures(log) ==
    \A i \in 1..Len(log) : ~log[i].ok /\ ~HasFatalText(log[i].ex)

\* The text carries the exception's kind and its message
Carries(text, ex) == Contains(text, <<ex.ex_name>>) /\ Contains(text, ex.ex_str)

IsErrorRecord(v) == DOMAIN v = {"error"} /\ Len(v.error) = 1

\* C1: for every retry budget R >= 0, a call whose every attempt fails with a
\* retryable exception has issued exactly R+1 requests when it returns its error.
C1_ExactlyRPlusOneAttempts ==
    (q_pc = "done" /\ AllRetryableFailures(q_log))
        => (IsErrorRecord(q_ret) /\ Len(q_log) = q_cfg + 1)

\* C2: an attempt that fails with a fatal-immediate text is the last request of
\* its call, on the first attempt and on any retry, for every R: the call has
\* returned an error record right after it.
C2_FatalReturnsAtOnce ==
    \A i \in 1..Len(q_log) :
        (~q_log[i].ok /\ HasFatalText(q_log[i].ex))
            => (i = Len(q_log) /\ q_pc = "done" /\ IsErrorRecord(q_ret))

\* C2 witness: with R >= 1, a retry (not the first attempt) failed fatally
C2_Witness ==
    /\ q_pc = "done"
    /\ q_cfg >= 1
    /\ Len(q_log) >= 2
    /\ ~q_log[Len(q_log)].ok
    /\ HasFatalText(q_log[Len(q_log)].ex)

\* The call returned the payload of the first attempt that succeeded
ReturnedFirstSuccess ==
    /\ q_log[Len(q_log)].ok
    /\ q_ret = q_log[Len(q_log)].payload
    /\ \A i \in 1..(Len(q_log) - 1) : ~q_log[i].ok

\* The call returned an error record carrying the last failure's kind and message
ReturnedLastFailure ==
    /\ ~q_log[Len(q_log)].ok
    /\ IsErrorRecord(q_ret)
    /\ Carries(q_ret.error[1], q_log[Len(q_log)].ex)

\* The call stopped on a fatal-immediate failure with that pattern's fixed message
ReturnedFatalMessage ==
    /\ ~q_log[Len(q_log)].ok
    /\ HasFatalText(q_log[Len(q_log)].ex)
    /\ q_ret = IF Contains(q_log[Len(q_log)].ex.ex_str, <<"Incorrect padding">>)
               THEN MsgIncorrectPadding
               ELSE MsgServiceUnavailable

\* C3 as stated: a returned call gave the first success's payload or an error
\* record with the kind and message of the last failed attempt.
C3_PayloadOrLastFailure ==
    q_pc = "done" => (ReturnedFirstSuccess \/ ReturnedLastFailure)

C3_AmendedInv ==
    /\ Len(q_log) <= q_cfg + 2
    /\ q_pc = "done" =>
        \/ ReturnedFirstSuccess
        \/ ReturnedFatalMessage
        \/ /\ ReturnedLastFailure
           /\ AllRetryableFailures(q_log)
           /\ q_ret.error[1] = <<q_log[Len(q_log)].ex.ex_name, ":">>
                                   \o q_log[Len(q_log)].ex.ex_str

\* C3 amended: every call returns (never raises); it returns the payload of the
\* first attempt that succeeds, or the fixed message of a fatal-immediate
\* failure, or, once the retries are used up, an error record with the kind and
\* message of the last failed attempt.
C3_Amended ==
    /\ []C3_AmendedInv
    /\ (q_pc = "call") ~> (q_pc = "done")

\* C3 witness: three retryable failures of different kinds, the last one reported
C3_Witness ==
    /\ q_pc = "done"
    /\ Len(q_log) >= 3
    /\ AllRetryableFailures(q_log)
    /\ q_log[1].ex # q_log[Len(q_log)].ex
    /\ ReturnedLastFailure

(***************************************************************************)
(* Claims about the trade workflow and the order monitor                   *)
(***************************************************************************)

\* The running callback began with this reply
BeganWith(text) == trace # << >> /\ trace[1].op = "reply" /\ trace[1].what = <<text>>

\* The places of the trace with a request of this method
Requests(method) ==
    { k \in 1..Len(trace) : trace[k].op = "query" /\ trace[k].method = method }

\* The transaction ids with which AddOrder answered the running callback
PlacedTxids ==
    { trace[k].res.result.txid[1] :
        k \in { j \in Requests("AddOrder") :
                  ~IsError(trace[j].res) /\ trace[j].res.result.txid # << >> } }

\* The running callback registered a monitor job for txid, and the queue holds it
Registered(txid) ==
    /\ \E k \in 1..Len(trace) : trace[k].op = "run_repeating" /\ trace[k].txid = txid
    /\ \E i \in 1..Len(jobs) : jobs[i] = txid

\* C4: with trade monitoring enabled, whenever the AddOrder of trade CONFIRM
\* (yes) is answered with a transaction id T, the handler has registered a
\* monitor job for T, whatever its later exchange calls answer.
C4_PlacedOrderIsMonitored ==
    (BeganWith("Placing order...") /\ Truthy(config.check_trade))
        => \A t \in PlacedTxids : Registered(t)

\* A step in which a monitor job ticks
TickStep == trace' # << >> /\ trace'[1].op = "job_run"

\* The answer a tick got is a successful one with a terminal status
TerminalAnswer(res) == ~IsError(res) /\ res.result.status \in {"closed", "canceled"}

\* js is jobs without its job at place i
IsRemovalAt(js, i) ==
    /\ Len(js) = Len(jobs) - 1
    /\ \A k \in 1..Len(js) : js[k] = (IF k < i THEN jobs[k] ELSE jobs[k + 1])

\* C5: a tick of a monitor job asks QueryOrders about the job's order; it
\* removes that job, and only that job, exactly when the answer is a success
\* with status closed or canceled; after an error or any other status the job
\* queue is as before and still runs, so the job ticks again.
C5_TickRemovesOnlyOnTerminalStatus ==
    [][ TickStep =>
          LET i == trace'[1].job
              q == trace'[2]
          IN  /\ i \in 1..Len(jobs)
              /\ q.op = "query" /\ q.method = "QueryOrders" /\ q.data.txid = jobs[i]
              /\ TerminalAnswer(q.res) => IsRemovalAt(jobs', i)
              /\ ~TerminalAnswer(q.res) => (jobs' = jobs /\ running')
      ]_vars

\* C5 witness: a tick whose query failed left its job in the queue and the bot
\* running
C5_Witness ==
    /\ trace # << >>
    /\ trace[1].op = "job_run"
    /\ IsError(trace[2].res)
    /\ trace[1].job \in 1..Len(jobs)
    /\ jobs[trace[1].job] = trace[2].data.txid
    /\ running

\* C6: a "Trade executed" message is sent only by a tick whose QueryOrders
\* answer has status closed; it goes to the operator, names the order, and is
\* followed by the removal of the job; a tick that sees canceled removes the
\* job and sends nothing.
C6_NotificationOnlyOnClosed ==
    /\ \A k \in 1..Len(trace) :
          (trace[k].op = "send_message" /\ trace[k].what[1] = "Trade executed")
              => /\ trace[1].op = "job_run"
                 /\ ~IsError(trace[2].res)
                 /\ trace[2].res.result.status = "closed"
                 /\ k = 3
                 /\ trace[k].to = config.user_id
                 /\ trace[k].what[2] = trace[2].data.txid
                 /\ Len(trace) = 4
                 /\ trace[4].op = "schedule_removal"
                 /\ trace[4].txid = trace[2].data.txid
    /\ (trace # << >> /\ trace[1].op = "job_run" /\ ~IsError(trace[2].res))
          => /\ trace[2].res.result.status = "canceled"
                => (Len(trace) = 3 /\ trace[3].op = "schedule_removal")
             /\ trace[2].res.result.status = "closed"
                => (Len(trace) = 4 /\ trace[3].op = "send_message")

\* C6 witness: a tick saw closed, notified the operator and removed its job
C6_Witness ==
    /\ trace # << >>
    /\ trace[1].op = "job_run"
    /\ Len(trace) = 4
    /\ trace[3].op = "send_message"
    /\ trace[3].what[1] = "Trade executed"
    /\ trace[4].op = "schedule_removal"

\* A step in which trade CONFIRM (yes) sends its AddOrder
ConfirmStep ==
    /\ trace' # << >>
    /\ trace'[1].op = "reply"
    /\ trace'[1].what = <<"Placing order...">>
    /\ Len(trace') >= 2

\* C7: the AddOrder request of trade CONFIRM (yes) has the recorded side as
\* type, the recorded volume and the pair of the recorded currency; for a
\* limit order also ordertype limit and the recorded price and nothing else,
\* for a market order also ordertype market and the trading agreement and
\* nothing else.
C7_OrderRequestShape ==
    [][ ConfirmStep =>
          LET cd == chat_data[update'[1]]
              req == trace'[2].data
          IN  /\ trace'[2].op = "query" /\ trace'[2].method = "AddOrder"
              /\ {"buysell", "volume", "currency", "market_price"} \subseteq DOMAIN cd
              /\ req.type = cd.buysell
              /\ req.volume = cd.volume
              /\ req.pair = pairs[cd.currency]
              /\ IF cd.market_price
                 THEN /\ DOMAIN req = {"type", "volume", "pair", "ordertype", "trading_agreement"}
                      /\ req.ordertype = "market"
                      /\ req.trading_agreement = "agree"
                 ELSE /\ DOMAIN req = {"type", "volume", "pair", "ordertype", "price"}
                      /\ req.ordertype = "limit"
                      /\ req.price = cd.price
      ]_vars

\* C7 witness: trade CONFIRM (yes) sent a market order, and the exchange took it
C7_Witness ==
    /\ BeganWith("Placing order...")
    /\ Len(trace) >= 2
    /\ trace[2].op = "query"
    /\ trace[2].method = "AddOrder"
    /\ trace[2].data.ordertype = "market"
    /\ ~IsError(trace[2].res)
    /\ trace[2].res.result.txid # << >>

\* C8: after a cancel (CANCEL, NO at a confirmation, /cancel) the sender's
\* trade session is idle and the scratch record has no field.
C8_CancelClearsScratch ==
    (BeganWith("Canceled...") /\ update # << >>)
        => /\ conv[update[1]]["trade"] = IDLE
           /\ DOMAIN chat_data[update[1]] = {}

\* C9: when the trade workflow is entered, the scratch record has no field.
C9_EntryFindsEmptyScratch ==
    (BeganWith("Buy or sell?") /\ update # << >>)
        => DOMAIN chat_data[update[1]] = {}

\* C10: once SELL_ALL_CONFIRM (yes) has the list of open orders, it sends a
\* CancelOrder for every one of them, whatever the answers to the others.
C10_EveryOpenOrderGetsCancel ==
    (BeganWith("Preparing to sell everything...") /\ Len(trace) >= 2 /\ ~IsError(trace[2].res))
        => \A k \in 1..Len(trace[2].res.result.open) :
              \E j \in Requests("CancelOrder") :
                  trace[j].data.txid = trace[2].res.result.open[k].txid

(***************************************************************************)
(* Claims about the steps of the trade workflow                            *)
(***************************************************************************)

\* The step of the trade conversation of sender u
Step(u) == conv[u]["trade"]

\* A step in which a callback of the trade workflow handles a text of sender u
\* and returns (no exception leaves it)
Handled(u) ==
    /\ update' # << >>
    /\ update'[1] = u
    /\ trace' # << >>
    /\ \A k \in 1..Len(trace') : trace'[k].op # "raise"

\* A step in which sender u enters a volume, directly or in the quote asset,
\* and the handler resolves it
VolumeEntry(u) ==
    /\ Handled(u)
    /\ Step(u) \in {"TRADE_VOLUME", "TRADE_VOLUME_ASSET"}
    /\ MatchNumber(update'[2])
    /\ {"volume", "currency"} \subseteq DOMAIN chat_data'[u]

\* The running callback showed the confirmation of the order
ShowedConfirmation(tr) ==
    \E k \in 1..Len(tr) : tr[k].op = "reply" /\ tr[k].what = <<"Place this order?">>

\* C12: when no minimum order size is configured for the traded currency, a
\* volume entry does not advance to CONFIRM.
C12_NoMinimumStopsAtVolume ==
    [][ \A u \in Senders :
          (VolumeEntry(u) /\ chat_data'[u].currency \notin DOMAIN limits)
              => conv'[u]["trade"] # "TRADE_CONFIRM" ]_vars

\* C13: when a minimum is configured for the traded currency, a volume entry
\* that resolves to less than the minimum goes back to volume entry without the
\* confirmation, and one that resolves to the minimum or more advances to
\* CONFIRM.
C13_MinimumIsTheBoundary ==
    [][ \A u \in Senders :
          (VolumeEntry(u) /\ chat_data'[u].currency \in DOMAIN limits)
              => LET cd == chat_data'[u]
                     min == ParseFloat(limits[cd.currency])
                 IN  /\ cd.volume < min
                        => /\ conv'[u]["trade"] = "TRADE_VOLUME"
                           /\ ~ShowedConfirmation(trace')
                     /\ cd.volume >= min => conv'[u]["trade"] = "TRADE_CONFIRM" ]_vars

\* C13 witness: a volume equal to the configured minimum was taken, and the
\* confirmation shown
C13_Witness ==
    /\ update # << >>
    /\ MatchNumber(update[2])
    /\ Step(update[1]) = "TRADE_CONFIRM"
    /\ ShowedConfirmation(trace)
    /\ {"volume", "currency"} \subseteq DOMAIN chat_data[update[1]]
    /\ chat_data[update[1]].currency \in DOMAIN limits
    /\ chat_data[update[1]].volume = ParseFloat(limits[chat_data[update[1]].currency])

\* The chain of the trade workflow: each step with the steps that follow it
TradeEdges ==
    { <<IDLE, "TRADE_BUY_SELL">>,
      <<"TRADE_BUY_SELL", "TRADE_CURRENCY">>,
      <<"TRADE_CURRENCY", "TRADE_SELL_ALL_CONFIRM">>,
      <<"TRADE_CURRENCY", "TRADE_PRICE">>,
      <<"TRADE_PRICE", "TRADE_VOL_TYPE">>,
      <<"TRADE_VOL_TYPE", "TRADE_VOLUME">>,
      <<"TRADE_VOL_TYPE", "TRADE_VOLUME_ASSET">>,
      <<"TRADE_VOL_TYPE", "TRADE_CONFIRM">>,
      <<"TRADE_VOLUME", "TRADE_CONFIRM">>,
      <<"TRADE_VOLUME_ASSET", "TRADE_CONFIRM">> }

\* C17: every change of step of the trade workflow follows an edge of the
\* chain, or ends the workflow (END, cancel) at idle; a handler that prompts
\* again keeps the step.
C17_StepsFollowTheChain ==
    [][ \A u \in Senders :
          conv'[u]["trade"] # conv[u]["trade"]
              => \/ <<conv[u]["trade"], conv'[u]["trade"]>> \in TradeEdges
                 \/ conv'[u]["trade"] = IDLE ]_vars

\* C18: the trade workflow enters SELL_ALL_CONFIRM only from CURRENCY, on the
\* input ALL, with sell as the recorded side.
C18_SellAllNeedsSellSide ==
    [][ \A u \in Senders :
          (conv'[u]["trade"] = "TRADE_SELL_ALL_CONFIRM" /\ Step(u) # "TRADE_SELL_ALL_CONFIRM")
              => /\ Step(u) = "TRADE_CURRENCY"
                 /\ update' # << >>
                 /\ update'[1] = u
                 /\ Upper(update'[2]) = "ALL"
                 /\ Has(chat_data[u], "buysell")
                 /\ chat_data[u].buysell = "sell" ]_vars

\* An exchange call of the callback that produced tr answered with an error
SawExchangeError(tr) ==
    \E k \in 1..Len(tr) : tr[k].op = "query" /\ IsError(tr[k].res)

\* C19: when an exchange call of a step handler of the trade workflow answers
\* with an error, the sender's step stays as it was or becomes idle.
C19_ExchangeErrorDoesNotAdvance ==
    [][ \A u \in Senders :
          (update' # << >> /\ update'[1] = u /\ SawExchangeError(trace'))
              => conv'[u]["trade"] \in {conv[u]["trade"], IDLE} ]_vars

\* The sum of the volumes of the open sell orders for currency, from place k on
RECURSIVE SumOpenSells(_, _, _)
SumOpenSells(open, currency, k) ==
    IF k > Len(open) THEN 0
    ELSE (IF open[k].descr[1] = "sell" /\ open[k].descr[3][1] = currency
          THEN ParseFloat(open[k].descr[2]) ELSE 0)
         + SumOpenSells(open, currency, k + 1)

\* A step in which volume mode ALL resolves the volume of a sell of sender u:
\* Balance and OpenOrders have both answered
VolAllSell(u) ==
    /\ Handled(u)
    /\ Step(u) = "TRADE_VOL_TYPE"
    /\ trace'[1].op = "reply"
    /\ trace'[1].what = <<"Calculating volume...">>
    /\ Len(trace') >= 3
    /\ ~IsError(trace'[2].res)
    /\ ~IsError(trace'[3].res)
    /\ chat_data[u].buysell = "sell"

StepsOf(h) ==
    CASE h = "orders" -> OrdersSteps
      [] h = "trade" -> TradeSteps
      [] h = "bot" -> BotSteps
      [] h = "settings" -> SettingsSteps

\* C16: the recorded step of each workflow of each sender is idle or a step
\* the workflow has handlers for
C16_StepsAreDefined ==
    \A u \in Senders, h \in HandlerNames : conv[u][h] \in {IDLE} \cup StepsOf(h)

\* The bot menu led into the settings steps, and a value was entered: the bot
\* workflow is at the step settings_save returned
C16_Witness ==
    /\ update # << >>
    /\ update[2] \in StepsValues
    /\ conv[update[1]]["bot"] = "SETTINGS_CONFIRM"
    /\ "value" \in DOMAIN chat_data[update[1]]

(***************************************************************************)
(* Claims about the settings workflow                                      *)
(***************************************************************************)

\* C15: whatever updates were handled, config and config.json hold for user_id
\* the value config.json had at the first start
C15_UserIdIsNeverChanged ==
    \A f \in ConfigFiles :
        /\ Same(config.user_id, f.user_id)
        /\ Same(config_file.user_id, f.user_id)

(***************************************************************************)
(* Claims about the orders workflow                                        *)
(***************************************************************************)

\* A CancelOrder request of the trace, and one the exchange answered without error
IsCancel(e) == e.op = "query" /\ e.method = "CancelOrder"
Succeeded(e) == ~IsError(e.res)

\* The transaction ids of the requests in rs, in order
TxidsAsked(rs) == [k \in 1..Len(rs) |-> rs[k].data.txid]

\* C11: when CLOSE ALL has run over a cached list of N open orders, the trace
\* holds N CancelOrder requests, the k-th for the k-th order of the list,
\* whatever was answered, and the last message lists the orders of the
\* requests that succeeded, or says that none was closed.
C11_CloseAllCancelsEachOrderOnce ==
    (BeganWith("Closing orders...") /\ orders # << >>)
        => LET reqs == SelectSeq(trace, IsCancel)
               last == trace[Len(trace)]
           IN  /\ TxidsAsked(reqs) = TxidsOf(orders)
               /\ last.op = "reply"
               /\ last.what = IF SelectSeq(reqs, Succeeded) # << >>
                              THEN <<"Orders closed">> \o TxidsAsked(SelectSeq(reqs, Succeeded))
                              ELSE <<"No orders closed">>

\* CLOSE ALL over two orders: the cancel of the first failed, the second was
\* still asked for and closed
C11_Witness ==
    /\ BeganWith("Closing orders...")
    /\ Len(orders) = 2
    /\ LET reqs == SelectSeq(trace, IsCancel) IN
       /\ Len(reqs) = 2
       /\ IsError(reqs[1].res)
       /\ ~IsError(reqs[2].res)
    /\ trace[Len(trace)].what = <<"Orders closed", orders[2].txid>>

(***************************************************************************)
(* Claims about the access check                                           *)
(***************************************************************************)

\* C14: a command whose sender is not the user of config is handled without a
\* request to the exchange, and leaves the recorded steps, the scratch data
\* and the limit table as they were.
C14_StrangersAreTurnedAway ==
    [][ (/\ update' # << >>
         /\ update'[2] \in Commands
         /\ ~Allowed(update'[1]))
        => (/\ \A k \in 1..Len(trace') : trace'[k].op # "query"
            /\ conv' = conv
            /\ chat_data' = chat_data
            /\ limits' = limits) ]_vars

(***************************************************************************)
(* Claims about volume mode ALL                                            *)
(***************************************************************************)

\* volume x price of the open buy orders quoted in the currency quote, from
\* place k on
RECURSIVE SumOpenBuys(_, _, _)
SumOpenBuys(open, quote, k) ==
    IF k > Len(open) THEN 0
    ELSE (IF open[k].descr[1] = "buy" /\ open[k].descr[3][2] = quote
          THEN Times(ParseFloat(open[k].descr[2]), ParseFloat(open[k].descr[6])) ELSE 0)
         + SumOpenBuys(open, quote, k + 1)

\* A step in which volume mode ALL resolves the volume of a buy of sender u:
\* Balance and OpenOrders have both answered, the balance has the quote
\* currency and the limit price is not zero
VolAllBuy(u) ==
    /\ Handled(u)
    /\ Step(u) = "TRADE_VOL_TYPE"
    /\ trace'[1].op = "reply"
    /\ trace'[1].what = <<"Calculating volume...">>
    /\ Len(trace') >= 3
    /\ ~IsError(trace'[2].res)
    /\ ~IsError(trace'[3].res)
    /\ {"buysell", "two", "price"} \subseteq DOMAIN chat_data[u]
    /\ chat_data[u].buysell = "buy"
    /\ HasBalance(trace'[2].res.result, chat_data[u].two)
    /\ ParseFloat(chat_data[u].price) # 0

\* C21: for a buy with volume mode ALL the funds are the balance of the quote
\* currency minus volume x price of the open buy orders quoted in that
\* currency, and the resolved volume is the funds divided by the limit price;
\* open sell orders and buy orders quoted in another currency do not count.
C21_BuyAllVolume ==
    [][ \A u \in Senders :
          VolAllBuy(u)
              => /\ Has(chat_data'[u], "volume")
                 /\ chat_data'[u].volume =
                        SignedDivFormat(
                            ParseFloat(BalanceOf(trace'[2].res.result, chat_data[u].two))
                            - SumOpenBuys(trace'[3].res.result.open,
                                          assets[chat_data[u].two].altname, 1),
                            ParseFloat(chat_data[u].price)) ]_vars

\* A step in which volume mode ALL resolves a volume for sender u
VolAllResolved(u) ==
    /\ Handled(u)
    /\ Step(u) = "TRADE_VOL_TYPE"
    /\ trace'[1].op = "reply"
    /\ trace'[1].what = <<"Calculating volume...">>
    /\ Len(trace') >= 3
    /\ ~IsError(trace'[2].res)
    /\ ~IsError(trace'[3].res)
    /\ Has(chat_data'[u], "volume")

\* C22: when volume mode ALL resolves to the volume zero, the handler says
\* that nothing is available and ends the workflow: no order is sent and the
\* step is not TRADE_CONFIRM.
C22_ZeroVolumeEnds ==
    [][ \A u \in Senders :
          (VolAllResolved(u) /\ chat_data'[u].volume = 0)
              => /\ conv'[u]["trade"] = IDLE
                 /\ trace'[Len(trace')] = Reply("Available volume is 0")
                 /\ \A k \in 1..Len(trace') :
                        trace'[k].op = "query" => trace'[k].method # "AddOrder" ]_vars

(***************************************************************************)
(* Claims about the monitor jobs                                           *)
(***************************************************************************)

\* A step in which monitor_orders runs
Reconciles == ~monitored /\ monitored'

\* C23: when monitor_orders has run with check_trade set, it has learned the
\* open orders from the exchange, and the job queue holds a job for each.
C23_OpenOrdersGetJobs ==
    [][ (Reconciles /\ Truthy(config.check_trade))
            => /\ trace' # << >>
               /\ trace'[1].op = "query"
               /\ trace'[1].method = "OpenOrders"
               /\ ~IsError(trace'[1].res)
               /\ \A k \in 1..Len(trace'[1].res.result.open) :
                      \E j \in 1..Len(jobs') : jobs'[j] = trace'[1].res.result.open[k].txid ]_vars

\* No two jobs of the queue js have the same order_txid
OneJobEach(js) == \A i, j \in 1..Len(js) : js[i] = js[j] => i = j

\* C24: monitor_orders, at whatever moment after start_polling it runs, leaves
\* at most one job for each transaction id.
C24_OneJobPerOrder ==
    [][ (Reconciles /\ OneJobEach(jobs)) => OneJobEach(jobs') ]_vars

(***************************************************************************)
(* Claims about the refresh of the shared tables                           *)
(***************************************************************************)

\* A step in which init_cmd handles /initialize without reaching its end:
\* a stage failed
RefreshFails ==
    /\ update' # << >>
    /\ update'[2] = "/initialize"
    /\ trace' # << >>
    /\ \/ trace'[Len(trace')].op = "raise"
       \/ trace'[Len(trace')].what # <<"Kraken-Bot is ready!">>

\* C25: when a stage of init_cmd fails, the asset table and the limit table
\* are those from before the command.
C25_FailedRefreshKeepsTables ==
    [][ RefreshFails => (assets' = assets /\ limits' = limits) ]_vars

(***************************************************************************)
(* Claims about SETTINGS_CONFIRM                                           *)
(***************************************************************************)

\* A step in which settings_confirm handles the text x of sender u and the
\* process goes on: os.execl was not reached
ConfirmReturns(u, x) ==
    /\ update' = <<u, x>>
    /\ \E h \in {"bot", "settings"} : Selected(h, u, x, "settings_confirm")

\* A step in which os.execl replaces the process while an update is handled
Restarts == trace = << >> /\ trace' = << >> /\ update' = << >> /\ running'

\* C26: NO at SETTINGS_CONFIRM leaves config and config.json as they are and
\* the process running; YES ends in a restart, before which config got the
\* stored value under the stored key, and nothing else, and config.json got
\* the same content.
C26_ConfirmSavesOneKeyAndRestarts ==
    [][ /\ \A u \in Senders :
              ConfirmReturns(u, "NO") => (config' = config /\ config_file' = config_file)
        /\ \A u \in Senders : ~ConfirmReturns(u, "YES")
        /\ Restarts
              => \E u \in Senders :
                    /\ {"setting", "value"} \subseteq DOMAIN chat_data[u]
                    /\ config' = Put(config, chat_data[u].setting, chat_data[u].value)
                    /\ config_file' = config' ]_vars

\* Sender u is inside a workflow, and text x matches no pattern of the step of
\* any workflow u is in
Unmatched(u, x) ==
    /\ \E h \in HandlerNames : conv[u][h] # IDLE
    /\ \A h \in HandlerNames : conv[u][h] # IDLE => StateCallback(h, conv[u][h], x) = "none"

\* The running callback asked the exchange nothing
NoExchangeCall(tr) == \A k \in 1..Len(tr) : tr[k].op # "query"

\* C27: a plain-text reply that matches no pattern of the current step leaves
\* the step and the scratch data as they were and causes no exchange call.
C27_UnmatchedInputChangesNothing ==
    [][ \A u \in Senders, x \in StepsTexts :
          (update' = <<u, x>> /\ FiltersText(x) /\ Unmatched(u, x))
              => /\ conv' = conv
                 /\ chat_data' = chat_data
                 /\ NoExchangeCall(trace') ]_vars

\* An unmatched reply reached a sender who is inside a workflow
C27_Witness ==
    /\ update # << >>
    /\ trace = <<NoHandler>>
    /\ FiltersText(update[2])
    /\ \E h \in HandlerNames : conv[update[1]][h] \notin {IDLE, "SETTINGS_SAVE"}
    /\ Unmatched(update[1], update[2])

\* A step in which trade_price handles the market price for a buy order of
\* sender u
MarketBuy(u) ==
    /\ Handled(u)
    /\ Selected("trade", u, update'[2], "trade_price")
    /\ Upper(update'[2]) = "MARKET PRICE"
    /\ Has(chat_data[u], "buysell")
    /\ chat_data[u].buysell = "buy"

\* C28: when the price is the market price and the side is buy, the session goes
\* to the direct entry of the volume with the volume mode VOLUME, not to the
\* choice of a volume mode.
C28_MarketBuyEntersVolume ==
    [][ \A u \in Senders :
          MarketBuy(u) => /\ conv'[u]["trade"] = "TRADE_VOLUME"
                          /\ Has(chat_data'[u], "vol_type")
                          /\ chat_data'[u].vol_type = "VOLUME" ]_vars

\* A step in which a job asks the exchange about order t
Asked(t) ==
    /\ Len(trace') >= 2
    /\ trace'[1].op = "job_run"
    /\ trace'[2].data.txid = t

\* From some time on the exchange reports order t with status st whenever it
\* answers: the status has become st and stays st
StaysAt(t, st) ==
    <>[][ Asked(t) => (IsError(trace'[2].res) \/ trace'[2].res.result.status = st) ]_vars

\* From some time on QueryOrders about order t succeeds
Succeeds(t) == <>[][ Asked(t) => ~IsError(trace'[2].res) ]_vars

\* A job tracks order t
Tracked(t) == \E i \in 1..Len(jobs) : jobs[i] = t

\* The running job removed itself from the queue
Removed(t) == \E k \in 1..Len(trace) : trace[k] = JobRemoval(t)

\* The running job told the operator that order t was executed and removed itself
Notified(t) ==
    /\ \E k \in 1..Len(trace) : trace[k] = SendMessage(config.user_id, <<"Trade executed", t>>)
    /\ Removed(t)

\* C29 as stated: with the ticks scheduled fairly, once the status of an order
\* stays closed and QueryOrders succeeds, a job that tracks it reports it to
\* the operator and removes itself; once the status stays canceled, a job that
\* tracks it removes itself.
C29_AsStated ==
    \A t \in TxIds :
        /\ (StaysAt(t, "closed") /\ Succeeds(t)) => <>[](Tracked(t) => <>Notified(t))
        /\ StaysAt(t, "canceled") => <>[](Tracked(t) => <>Removed(t))

\* C29, amended: once the status of an order stays canceled and QueryOrders
\* succeeds, a job that tracks it removes itself, as for a closed order.
C29_ClosedAndCanceledLeaveTheQueue ==
    \A t \in TxIds :
        /\ (StaysAt(t, "closed") /\ Succeeds(t)) => <>[](Tracked(t) => <>Notified(t))
        /\ (StaysAt(t, "canceled") /\ Succeeds(t)) => <>[](Tracked(t) => <>Removed(t))

\* A job reported an executed order and left the queue
C29_Witness == \E t \in TxIds : Notified(t) /\ ~Tracked(t)

\* A step in which trade_sell_all_confirm answers YES of sender u and reads the
\* balance at place k of the trace; every AddOrder that succeeds names the
\* order it created
SoldAll(u, k) ==
    /\ update' # << >>
    /\ update'[1] = u
    /\ Selected("trade", u, update'[2], "trade_sell_all_confirm")
    /\ Upper(update'[2]) = "YES"
    /\ k \in 1..Len(trace')
    /\ trace'[k].op = "query"
    /\ trace'[k].method = "Balance"
    /\ ~IsError(trace'[k].res)
    /\ \A m \in 1..Len(trace') :
           (trace'[m].op = "query" /\ trace'[m].method = "AddOrder" /\ ~IsError(trace'[m].res))
               => trace'[m].res.result.txid # << >>

\* The item of a balance is not fiat, not zero and at least the minimum
\* configured for its asset
Qualifies(item) ==
    /\ ~StartsWithZ(item[1])
    /\ ParseFloat(item[2]) # 0
    /\ item[1] \in DOMAIN assets
    /\ assets[item[1]].altname \in DOMAIN limits
    /\ ParseFloat(item[2]) >= ParseFloat(limits[assets[item[1]].altname])

\* The places of trace tr at which a market sell of asset a is submitted
MarketSells(tr, a) ==
    { m \in 1..Len(tr) : /\ tr[m].op = "query"
                         /\ tr[m].method = "AddOrder"
                         /\ tr[m].data.type = "sell"
                         /\ tr[m].data.ordertype = "market"
                         /\ tr[m].data.pair[1] = a }

\* The places of trace tr at which an order is asked for
AddOrders(tr) == { m \in 1..Len(tr) : tr[m].op = "query" /\ tr[m].method = "AddOrder" }

\* Each item of the balance that qualifies gets one market sell of its whole
\* amount, and no other order is asked for
SellsWhatQualifies(tr, bal) ==
    /\ \A j \in 1..Len(bal) :
           IF Qualifies(bal[j])
           THEN /\ Cardinality(MarketSells(tr, bal[j][1])) = 1
                /\ \A m \in MarketSells(tr, bal[j][1]) : tr[m].data.volume = bal[j][2]
           ELSE MarketSells(tr, bal[j][1]) = {}
    /\ \A m \in AddOrders(tr) : \E j \in 1..Len(bal) : m \in MarketSells(tr, bal[j][1])

\* Each order created is followed by the registration of a job that tracks it
JobForEachOrder(tr, js) ==
    \A m \in AddOrders(tr) :
        ~IsError(tr[m].res)
            => /\ m < Len(tr)
               /\ tr[m + 1] = JobAdd(tr[m].res.result.txid[1])
               /\ \E i \in 1..Len(js) : js[i] = tr[m].res.result.txid[1]

\* C30: SELL_ALL_CONFIRM (yes) submits one market sell of the full balance for
\* each asset that is not fiat, not zero and at least its minimum, no order for
\* any other asset, and registers a job for each order created (when the
\* setting check_trade is on).
C30_SellAllSellsWhatQualifies ==
    [][ \A u \in Senders : \A k \in 1..Len(trace') :
          SoldAll(u, k) => /\ SellsWhatQualifies(trace', trace'[k].res.result)
                           /\ Truthy(config.check_trade) => JobForEachOrder(trace', jobs') ]_vars

\* A step in which orders_close_all handles a text of sender u
ClosesAll(u) ==
    /\ update' # << >>
    /\ update'[1] = u
    /\ Selected("orders", u, update'[2], "orders_close_all")

\* C31: after CLOSE ALL has gone through the cached list of orders, the orders
\* workflow has ended, whether all, some or none of the cancel requests
\* succeeded.
C31_CloseAllEndsTheWorkflow ==
    [][ \A u \in Senders : ClosesAll(u) => conv'[u]["orders"] = IDLE ]_vars

\* A step that handles a text of sender u whose orders workflow is at CLOSE_ORDER
AtCloseOrder(u) ==
    /\ update' # << >>
    /\ update'[1] = u
    /\ conv[u]["orders"] = "ORDERS_CLOSE_ORDER"

\* The places of trace tr at which a cancel request is sent
Cancels(tr) == { k \in 1..Len(tr) : IsCancel(tr[k]) }

\* C32: at CLOSE_ORDER a cancel request is sent only for a text that has the
\* shape of a transaction id; then it is one request that carries the entered
\* id, the workflow ends when the exchange accepts it and stays at CLOSE_ORDER
\* when the exchange answers with an error.
C32_CloseOrderCancelsTheEnteredId ==
    [][ \A u \in Senders :
          AtCloseOrder(u)
              => IF update'[2] \in TxIds
                 THEN /\ Cardinality(Cancels(trace')) = 1
                      /\ \A k \in Cancels(trace') :
                             /\ trace'[k].data.txid = update'[2]
                             /\ conv'[u]["orders"] = IF IsError(trace'[k].res)
                                                     THEN "ORDERS_CLOSE_ORDER" ELSE IDLE
                 ELSE Cancels(trace') = {} ]_vars

\* CLOSE_ORDER closed the order whose id was entered, and the workflow ended
C32_Witness ==
    /\ update # << >>
    /\ update[2] \in TxIds
    /\ conv[update[1]]["orders"] = IDLE
    /\ Len(trace) = 3
    /\ IsCancel(trace[2])
    /\ trace[3] = ReplyWith("Order closed", update[2])

\* The number of jobs of queue js that track order t
CountOf(js, t) == Cardinality({ i \in 1..Len(js) : js[i] = t })

\* A message of trace tr tells the operator that order t was executed
Executed(tr, t) ==
    \E k \in 1..Len(tr) : tr[k].op = "send_message" /\ tr[k].what = <<"Trade executed", t>>

\* A step in which a job learns from the exchange that order t is canceled
LearnsCanceled(t) ==
    /\ Asked(t)
    /\ ~IsError(trace'[2].res)
    /\ trace'[2].res.result.status = "canceled"

\* A step in which the orders workflow has the exchange cancel order t
OperatorCancels(t) ==
    /\ \E u \in Senders : AtCloseOrder(u) \/ ClosesAll(u)
    /\ \E k \in Cancels(trace') : trace'[k].data.txid = t /\ ~IsError(trace'[k].res)

ActiveWorkflows(u) ==
    { w \in {"trade", "orders", "bot"} :
        IF w = "bot" THEN conv[u]["bot"] # IDLE \/ conv[u]["settings"] # IDLE
        ELSE conv[u][w] # IDLE }

\* C34: at most one workflow (trade, orders, bot/settings) is active for a
\* sender at any time.
C34_OneActiveWorkflow ==
    \A u \in Senders : Cardinality(ActiveWorkflows(u)) <= 1

\* A step in which settings_save handles text x of sender u
Saves(u, x) ==
    /\ update' = <<u, x>>
    /\ \E h \in {"bot", "settings"} : Selected(h, u, x, "settings_save")

\* The value the text stands for: a boolean for true and false in any letter
\* case, an integer for the digits, else the text
Coerced(x) ==
    CASE x = "true" -> Bool(TRUE)
      [] x = "False" -> Bool(FALSE)
      [] x = "0" -> IntVal(0)
      [] x = "1" -> IntVal(1)
      [] OTHER -> Str(x)

\* C35: SAVE stores the entered text as a boolean if it is true or false in any
\* letter case, else as an integer if it parses as one, else as the text, and
\* goes to SETTINGS_CONFIRM in every case.
C35_SaveCoercesTheValue ==
    [][ \A u \in Senders, x \in SaveTexts :
          Saves(u, x) => /\ Has(chat_data'[u], "value")
                         /\ Same(chat_data'[u].value, Coerced(x))
                         /\ \E h \in {"bot", "settings"} :
                                /\ conv[u][h] = "SETTINGS_SAVE"
                                /\ conv'[u][h] = "SETTINGS_CONFIRM" ]_vars

\* SAVE stored False, typed with a capital, as the boolean
C35_Witness ==
    /\ update = <<"owner", "False">>
    /\ conv["owner"]["settings"] = "SETTINGS_CONFIRM"
    /\ Has(chat_data["owner"], "value")
    /\ Same(chat_data["owner"].value, Bool(FALSE))

\* A step in which trade_confirm of sender u has an AddOrder request accepted
\* with a transaction id
OrderAccepted(u) ==
    /\ update' # << >>
    /\ update'[1] = u
    /\ Selected("trade", u, update'[2], "trade_confirm")
    /\ \E k \in AddOrders(trace') :
           ~IsError(trace'[k].res) /\ trace'[k].res.result.txid # << >>

\* C36: once an AddOrder request of trade CONFIRM (yes) has been accepted with
\* a transaction id, the session is no longer at CONFIRM with the same scratch
\* data, so that a further YES cannot submit the order again.
C36_AcceptedOrderLeavesConfirm ==
    [][ \A u \in Senders :
          OrderAccepted(u)
              => ~(conv'[u]["trade"] = "TRADE_CONFIRM" /\ chat_data'[u] = chat_data[u]) ]_vars

\* A step in which trade_price handles a text of sender u and returns
PriceEntry(u) ==
    /\ Handled(u)
    /\ Selected("trade", u, update'[2], "trade_price")

\* A step in which trade_confirm of sender u sends an AddOrder request
OrderSent(u) ==
    /\ update' # << >>
    /\ update'[1] = u
    /\ Selected("trade", u, update'[2], "trade_confirm")
    /\ AddOrders(trace') # {}

\* C37: the kind (market or limit) and the limit price of an order the trade
\* workflow submits are the ones entered at the PRICE step of that run: the
\* PRICE step records the kind and the price of its own input, and CONFIRM
\* submits the recorded kind and price.
C37_OrderCarriesThePriceOfItsRun ==
    [][ \A u \in Senders :
          /\ PriceEntry(u)
                => /\ Has(chat_data'[u], "market_price")
                   /\ chat_data'[u].market_price = (Upper(update'[2]) = "MARKET PRICE")
                   /\ Upper(update'[2]) # "MARKET PRICE"
                         => /\ Has(chat_data'[u], "price")
                            /\ chat_data'[u].price = CommaToDot(Upper(update'[2]))
          /\ OrderSent(u)
                => \A k \in AddOrders(trace') :
                      IF chat_data[u].market_price
                      THEN trace'[k].data.ordertype = "market"
                      ELSE /\ trace'[k].data.ordertype = "limit"
                           /\ trace'[k].data.price = chat_data[u].price ]_vars

\* C38: every AddOrder request that trade_confirm submits carries a volume
\* greater than zero.
C38_SubmittedVolumeIsPositive ==
    [][ \A u \in Senders :
          OrderSent(u) => \A k \in AddOrders(trace') : trace'[k].data.volume > 0 ]_vars

\* C39: the trade workflow is at VOLUME_ASSET, the entry of the volume in the
\* quote asset, only when a limit price is recorded in the scratch data; for a
\* market-price order that step is not reached.
C39_VolumeAssetHasAPrice ==
    \A u \in Senders :
        conv[u]["trade"] = "TRADE_VOLUME_ASSET"
            => /\ Has(chat_data[u], "market_price")
               /\ ~chat_data[u].market_price
               /\ Has(chat_data[u], "price")

\* C40: every limit price the PRICE step accepts and records is greater than
\* zero, so that the divisions by the price are defined.
C40_AcceptedPriceIsPositive ==
    [][ \A u \in Senders :
          (PriceEntry(u) /\ MatchNumber(update'[2]) /\ ~Has(chat_data[u], "market_price"))
              => /\ Has(chat_data'[u], "price")
                 /\ ParseFloat(chat_data'[u].price) > 0 ]_vars

====
